---- MODULE Spec2Model ----
(***************************************************************************)
(* The engagement pipeline of "Engagement Calculate":                      *)
(*   Engagement_data_1_processor.py  (tag aggregator)                      *)
(*       Engagement_data_raw.csv  ->  Engagement_data_processed.csv        *)
(*   Engagement_overall_processor.py (category rollup)                     *)
(*       Engagement_data_processed.csv (+ Engagement_data_raw.csv)         *)
(*                                ->  Engagement_overall_result.csv        *)
(*   strategic_signal_matrix_X.py, strategic_signal_matrix_truth_media.py  *)
(*       (frequency normalizers) Engagement_data_processed.csv -> per-tag  *)
(*       platform mention counts and frequency percentages                 *)
(*                                                                         *)
(* Strings whose characters matter (Tag_id, formatted cells) are tuples of *)
(* one-character strings.  Floats that the code rounds to two decimals are *)
(* kept as integers in hundredths.                                         *)
(***************************************************************************)
EXTENDS Integers, Sequences, FiniteSets, TLC

\* Largest number of records in Engagement_data_raw.csv.
MaxRecs == 3

\* The largest max_retries _extract_with_retry is called with.
MaxRetries == 3

\* The largest number of links in whitehouse_link.csv.
MaxLinks == 21

\* The largest max_pages a post fetcher is called with.
MaxPages == 3

VARIABLES
    rawFile,        \* Engagement_data_raw.csv: [exists, rows]
    procFile,       \* Engagement_data_processed.csv: [exists, rows] (text cells)
    resultFile,     \* Engagement_overall_result.csv: [exists, rows] (text cells)
    aggPc,          \* position of Engagement_data_1_processor.py
    df_raw,         \* aggregator: the table read from the raw file
    tagIdx,         \* aggregator: index of the next tag of all_expected_tags
    results,        \* aggregator: the list of row dicts built by the loop
    df_processed,   \* aggregator: the sorted DataFrame it returns
    rollPc,         \* position of Engagement_overall_processor.py
    df,             \* rollup: the table read from the processed file
    platform_stats, \* rollup: load_raw_data()'s crosstab, or None
    total_posts,    \* rollup: df['Frequency (Count)'].sum()
    catIdx,         \* rollup: index of the next category of the loop
    catResults,     \* rollup: the list of row dicts of calculate_category_stats
    xPc,            \* position of strategic_signal_matrix_X.py
    df_x_filtered,  \* X normalizer: the table load_and_process_data returns
    total_x_posts,  \* X normalizer: the denominator of X_Frequency_Percent
    truthPc,        \* position of strategic_signal_matrix_truth_media.py
    df_truth_filtered,  \* Truth normalizer: the table it returns
    total_truth_posts,  \* Truth normalizer: the denominator of its percentage
    ordPc,          \* two aggregator loops side by side: position
    ordRaw,         \* ... the raw table both loops read
    ordTags,        \* ... the taxonomy list of each loop (two orderings)
    ordIdx,         \* ... index of the next tag of both lists
    ordResults,     \* ... the list of row dicts of each loop
    ordProcessed,   \* ... the sorted DataFrame of each loop
    run,            \* the pipeline run again: 1 in the first run, 2 in the second
    prevProcFile,   \* ... Engagement_data_processed.csv as the first run left it
    prevResultFile, \* ... Engagement_overall_result.csv as the first run left it
    seenFile,       \* rollup racing the aggregator: the file read_csv opened
    retPc,          \* position of _extract_with_retry
    max_retries,    \* _extract_with_retry: its parameter
    attempt,        \* _extract_with_retry: the loop variable
    last_error,     \* _extract_with_retry: str(e) of the last exception
    retResult,      \* _extract_with_retry: what it returned
    attempts,       \* ... what each call of extract_tweet_data ended in
    whPc,           \* position of whitehouse_original_text_scraper.py's main
    links,          \* main: the rows of whitehouse_link.csv, with their pages
    whI,            \* main: the loop counter i
    contents,       \* main: the list of extracted contents
    success_count,  \* main
    fail_count,     \* main
    whFile,         \* whitehouse_original_text.csv as last written
    fPc,            \* position of get_trump_truth_posts / get_trump_tweets
    fetcher,        \* which of the two: "truth" or "x"
    start_date,     \* fetcher: its parameter, <<>> for None and <<d>> for a date
    end_date,       \* fetcher: its parameter
    max_pages,      \* fetcher: its parameter
    fPage,          \* fetcher: the loop variable page
    all_posts,      \* fetcher: all_truth_posts / all_tweets
    processed_ids,  \* fetcher: the set of ids seen
    requested       \* ... the responses to the requests made so far

aggVars == <<aggPc, df_raw, tagIdx, results, df_processed>>
rollVars == <<rollPc, df, platform_stats, total_posts, catIdx, catResults>>
normVars == <<xPc, df_x_filtered, total_x_posts, truthPc, df_truth_filtered,
              total_truth_posts>>
ordVars == <<ordPc, ordRaw, ordTags, ordIdx, ordResults, ordProcessed>>

histVars == <<run, prevProcFile, prevResultFile>>

\* What neither the pipeline, nor a normalizer, nor the two loops touch.
raceVars == <<seenFile>>

retryVars == <<retPc, max_retries, attempt, last_error, retResult, attempts>>

whVars == <<whPc, links, whI, contents, success_count, fail_count, whFile>>

fetchVars == <<fPc, fetcher, start_date, end_date, max_pages, fPage,
               all_posts, processed_ids, requested>>

scrapeVars == <<retryVars, whVars, fetchVars>>

moreVars == <<histVars, raceVars, scrapeVars>>

\* Everything but the scrapers.
pipeVars == <<rawFile, procFile, resultFile, aggVars, rollVars, normVars,
              ordVars, histVars, raceVars>>

vars == <<rawFile, procFile, resultFile, aggVars, rollVars, normVars, ordVars,
          moreVars>>

----------------------------------------------------------------------------
(* Text *)

Digits == <<"0", "1", "2", "3", "4", "5", "6", "7", "8", "9">>

\* Code-point order of the characters that occur in tag codes.
Alphabet == <<",", "0", "1", "2", "3", "4", "5", "6", "7", "8", "9",
              "A", "B", "C", "Z">>

CharOrd(c) == CHOOSE i \in 1..Len(Alphabet) : Alphabet[i] = c

\* Python's str < str: lexicographic by code point, a proper prefix first.
RECURSIVE StrLess(_, _)
StrLess(a, b) ==
    IF b = <<>> THEN FALSE
    ELSE IF a = <<>> THEN TRUE
    ELSE IF a[1] # b[1] THEN CharOrd(a[1]) < CharOrd(b[1])
    ELSE StrLess(Tail(a), Tail(b))

\* str(n) of a non-negative int.
RECURSIVE FormatInt(_)
FormatInt(n) ==
    IF n < 10 THEN <<Digits[n + 1]>>
    ELSE FormatInt(n \div 10) \o <<Digits[(n % 10) + 1]>>

DigitVal(c) == CHOOSE d \in 0..9 : Digits[d + 1] = c

\* int(s) of a string of decimal digits.
RECURSIVE ParseInt(_)
ParseInt(s) ==
    IF Len(s) = 0 THEN 0
    ELSE 10 * ParseInt(SubSeq(s, 1, Len(s) - 1)) + DigitVal(s[Len(s)])

\* repr of a float that has at most two decimals, given in hundredths:
\* 1700 -> "17.0", 1150 -> "11.5", 1167 -> "11.67".
FormatFloat(h) ==
    FormatInt(h \div 100) \o <<".">> \o
    (IF h % 100 = 0 THEN <<"0">>
     ELSE IF h % 10 = 0 THEN <<Digits[((h % 100) \div 10) + 1]>>
     ELSE <<Digits[((h % 100) \div 10) + 1], Digits[(h % 10) + 1]>>)

\* float(s) of such a repr, back in hundredths.
ParseFloat(s) ==
    LET dot == CHOOSE i \in 1..Len(s) : s[i] = "."
        frac == SubSeq(s, dot + 1, Len(s))
    IN  100 * ParseInt(SubSeq(s, 1, dot - 1))
        + (IF Len(frac) = 1 THEN 10 * DigitVal(frac[1])
           ELSE 10 * DigitVal(frac[1]) + DigitVal(frac[2]))

----------------------------------------------------------------------------
(* Numbers *)

\* Fault: the quotient cut to two decimals instead of rounded.
RoundTrunc(num, den) == (100 * num) \div den

\* What a division by zero leaves behind (ZeroDivisionError of Python, inf or
\* nan of numpy): no number the pipeline computes otherwise is negative.
DivisionByZero == -1

\* round(num / den, 2) in hundredths: Python rounds a tie to the even
\* neighbour.  (The quotient is a binary float in the code; a tie needs a
\* denominator divisible by 8.)
round2(num, den) ==
    IF den = 0 THEN DivisionByZero
    ELSE LET q == (100 * num) \div den
             r == (100 * num) % den
         IN  IF 2 * r < den THEN q
             ELSE IF 2 * r > den THEN q + 1
             ELSE IF q % 2 = 0 THEN q ELSE q + 1

\* f"{num / den:,.0f}" before the digits are written: the nearest integer,
\* a tie to the even neighbour.
round0(num, den) ==
    IF den = 0 THEN DivisionByZero
    ELSE LET q == num \div den
             r == num % den
         IN  IF 2 * r < den THEN q
             ELSE IF 2 * r > den THEN q + 1
             ELSE IF q % 2 = 0 THEN q ELSE q + 1

RECURSIVE GCD(_, _)
GCD(a, b) == IF b = 0 THEN a ELSE GCD(b, a % b)

\* num / den kept exact, as a fraction <<n, d>> in lowest terms (the code
\* keeps the quotient as an unrounded float).
Quotient(num, den) ==
    IF den = 0 THEN <<DivisionByZero, 1>>
    ELSE IF num = 0 THEN <<0, 1>>
    ELSE LET g == GCD(num, den) IN <<num \div g, den \div g>>

\* a + b of two such quotients
QuotientSum(a, b) == Quotient(a[1] * b[2] + b[1] * a[2], a[2] * b[2])

----------------------------------------------------------------------------
(* The raw table *)

\* A Tag_id cell: a string, or NaN (an empty cell of the CSV).
Str(s) == [na |-> FALSE, s |-> s]
NaN == [na |-> TRUE, s |-> <<>>]

RawRecord(t, c, p, l, r, y) ==
    [Tag_id |-> t, Category_id |-> c, Platform |-> p,
     Likes |-> l, Repost |-> r, Replies |-> y]

\* The records a raw file is made of: the three records of the spec's
\* scenario, a record carrying two codes, one with a missing Tag_id, one with
\* a Tag_id that is no taxonomy code, one on a third platform, and a post
\* nobody reacted to.
RecordPool ==
    { RawRecord(Str(<<"A", "1">>), "A", "X", 10, 1, 0),
      RawRecord(Str(<<"A", "1">>), "A", "X", 20, 2, 1),
      RawRecord(Str(<<"B", "2">>), "B", "X", 5, 0, 1),
      RawRecord(Str(<<"A", "2", ",", "B", "2">>), "A", "Truth Social", 1, 0, 0),
      RawRecord(NaN, "C", "Truth Social", 0, 0, 2),
      RawRecord(Str(<<"Z", "9">>), "B", "X", 4, 0, 0),
      RawRecord(Str(<<"C", "8">>), "C", "Truth Social", 3, 1, 0),
      RawRecord(Str(<<"C", "8">>), "C", "Facebook", 2, 0, 0),
      RawRecord(Str(<<"A", "1">>), "A", "X", 0, 0, 0) }

RawTables == UNION { [1..n -> RecordPool] : n \in 0..MaxRecs }

NoFile == [exists |-> FALSE, rows |-> <<>>]
File(rows) == [exists |-> TRUE, rows |-> rows]

----------------------------------------------------------------------------
(* Engagement_data_1_processor.py: load_and_process_data *)

all_expected_tags ==
    << <<"A", "1">>, <<"A", "2">>, <<"A", "3">>, <<"A", "4">>, <<"A", "5">>,
       <<"A", "6">>,
       <<"B", "1">>, <<"B", "2">>, <<"B", "3">>, <<"B", "4">>, <<"B", "5">>,
       <<"B", "6">>, <<"B", "7">>, <<"B", "8">>,
       <<"C", "1">>, <<"C", "2">>, <<"C", "3">>, <<"C", "4">>, <<"C", "5">>,
       <<"C", "6">>, <<"C", "7">>, <<"C", "8">> >>

\* Fault: a cell matches every tag of the category its first code is in.
str_contains_category(cell, pat) ==
    /\ ~cell.na
    /\ Len(cell.s) >= 1
    /\ cell.s[1] = pat[1]

\* Series.str.contains(pat, na=False): pat occurs somewhere in the cell; a
\* missing cell matches nothing.
str_contains(cell, pat) ==
    /\ ~cell.na
    /\ \E i \in 1..(Len(cell.s) - Len(pat) + 1) :
           SubSeq(cell.s, i, i + Len(pat) - 1) = pat

\* Fault: a record matched only when its Tag_id is the code and nothing else.
tag_data_exact(raw, tag_id) ==
    SelectSeq(raw, LAMBDA rec : rec.Tag_id = Str(tag_id))

\* df_raw[df_raw['Tag_id'].str.contains(tag_id, na=False)]
tag_data(raw, tag_id) ==
    SelectSeq(raw, LAMBDA rec : str_contains(rec.Tag_id, tag_id))

\* Fault: the platform filter left out.
platform_data_any(rows, platform) == rows

\* tag_data[tag_data['Platform'] == platform]
platform_data(rows, platform) ==
    SelectSeq(rows, LAMBDA rec : rec.Platform = platform)

\* rows[column].sum()
RECURSIVE column_sum(_, _)
column_sum(rows, column) ==
    IF rows = <<>> THEN 0
    ELSE rows[1][column] + column_sum(Tail(rows), column)

\* Fault: the comments left out of the total.
total_engagement_no_comments(likes, reposts, comments) == likes + reposts

\* total_engagement = total_likes + total_reposts + total_comments
total_engagement_of(likes, reposts, comments) == likes + reposts + comments

\* x_total_engagement / truth_total_engagement
platform_total_engagement(rows) ==
    IF Len(rows) > 0
    THEN column_sum(rows, "Likes") + column_sum(rows, "Repost")
         + column_sum(rows, "Replies")
    ELSE 0

\* Fault: only the records on X counted.
frequency_count_platform_x(rows) == Len(platform_data(rows, "X"))

\* frequency_count = len(tag_data)
frequency_count_of(rows) == Len(rows)

\* Fault: the average cut to two decimals instead of rounded.
average_truncated(total, count) ==
    IF count > 0 THEN RoundTrunc(total, count) ELSE 0

\* Fault: the average taken without looking at the count.
average_unguarded(total, count) == round2(total, count)

\* round(total / count if count > 0 else 0, 2), in hundredths
average_engagement_of(total, count) ==
    IF count > 0 THEN round2(total, count) ELSE 0

\* Fault: the tag's overall count taken for the platform's.
platform_frequency_count_overall(data, platform) == Len(data)

\* x_frequency_count = len(x_data) if len(x_data) > 0 else 0, and the same for
\* truth_data
platform_frequency_count(data, platform) ==
    IF Len(platform_data(data, platform)) > 0
    THEN Len(platform_data(data, platform))
    ELSE 0

\* Fault: a tag with no data given an average of 1.0.
zero_row_average_one(tag_id) ==
    [Tag_id |-> tag_id, Category_id |-> tag_id[1],
     Frequency_Count |-> 0, Frequency_Pct |-> 0,
     Total_Likes |-> 0, Total_Reposts |-> 0, Total_Comments |-> 0,
     Total_Engagement |-> 0, X_Total_Engagement |-> 0,
     Truth_Total_Engagement |-> 0, Average_Engagement |-> 100,
     X_Average_Engagement |-> 0, Truth_Average_Engagement |-> 0]

\* The else branch: a tag with no data.
zero_row(tag_id) ==
    [Tag_id |-> tag_id, Category_id |-> tag_id[1],
     Frequency_Count |-> 0, Frequency_Pct |-> 0,
     Total_Likes |-> 0, Total_Reposts |-> 0, Total_Comments |-> 0,
     Total_Engagement |-> 0, X_Total_Engagement |-> 0,
     Truth_Total_Engagement |-> 0, Average_Engagement |-> 0,
     X_Average_Engagement |-> 0, Truth_Average_Engagement |-> 0]

\* One iteration of the loop over all_expected_tags: the row dict of tag_id.
tag_row(raw, tag_id) ==
    LET data == tag_data(raw, tag_id)
        total_records == Len(raw)
        frequency_count == frequency_count_of(data)
        total_likes == column_sum(data, "Likes")
        total_reposts == column_sum(data, "Repost")
        total_comments == column_sum(data, "Replies")
        total_engagement ==
            total_engagement_of(total_likes, total_reposts, total_comments)
        x_data == platform_data(data, "X")
        truth_data == platform_data(data, "Truth Social")
        x_total_engagement == platform_total_engagement(x_data)
        truth_total_engagement == platform_total_engagement(truth_data)
    IN  IF Len(data) > 0
        THEN [Tag_id |-> tag_id, Category_id |-> tag_id[1],
              Frequency_Count |-> frequency_count,
              Frequency_Pct |-> round2(frequency_count * 100, total_records),
              Total_Likes |-> total_likes,
              Total_Reposts |-> total_reposts,
              Total_Comments |-> total_comments,
              Total_Engagement |-> total_engagement,
              X_Total_Engagement |-> x_total_engagement,
              Truth_Total_Engagement |-> truth_total_engagement,
              Average_Engagement |->
                  average_engagement_of(total_engagement, frequency_count),
              X_Average_Engagement |->
                  average_engagement_of(x_total_engagement,
                                        platform_frequency_count(data, "X")),
              Truth_Average_Engagement |->
                  average_engagement_of(truth_total_engagement,
                      platform_frequency_count(data, "Truth Social"))]
        ELSE zero_row(tag_id)

\* Fault: a tag with no data gets no row.
results_append_if_data(rows, row) ==
    IF row.Frequency_Count > 0 THEN Append(rows, row) ELSE rows

\* results.append({...})
results_append(rows, row) == Append(rows, row)

\* Fault: the rows sorted in descending order.
RowLessDescending(a, b) ==
    \/ StrLess(<<b.Category_id>>, <<a.Category_id>>)
    \/ a.Category_id = b.Category_id /\ StrLess(b.Tag_id, a.Tag_id)

\* The sort key ['Category_id', 'Tag_id'] of two rows.
RowLess(a, b) ==
    \/ StrLess(<<a.Category_id>>, <<b.Category_id>>)
    \/ a.Category_id = b.Category_id /\ StrLess(a.Tag_id, b.Tag_id)

RECURSIVE InsertRow(_, _)
InsertRow(sorted, row) ==
    IF sorted = <<>> THEN <<row>>
    ELSE IF RowLess(row, sorted[1]) THEN <<row>> \o sorted
    ELSE <<sorted[1]>> \o InsertRow(Tail(sorted), row)

\* Fault: the rows left in the order the loop made them.
sort_values_skipped(rows) == rows

\* df_processed.sort_values(['Category_id', 'Tag_id'])
RECURSIVE sort_values(_)
sort_values(rows) ==
    IF rows = <<>> THEN <<>>
    ELSE InsertRow(sort_values(SubSeq(rows, 1, Len(rows) - 1)), rows[Len(rows)])

\* One line of df_processed.to_csv(...): every cell as text.
to_csv_row(row) ==
    [Tag_id |-> row.Tag_id, Category_id |-> row.Category_id,
     Frequency_Count |-> FormatInt(row.Frequency_Count),
     Frequency_Pct |-> FormatFloat(row.Frequency_Pct),
     Total_Likes |-> FormatInt(row.Total_Likes),
     Total_Reposts |-> FormatInt(row.Total_Reposts),
     Total_Comments |-> FormatInt(row.Total_Comments),
     Total_Engagement |-> FormatInt(row.Total_Engagement),
     X_Total_Engagement |-> FormatInt(row.X_Total_Engagement),
     Truth_Total_Engagement |-> FormatInt(row.Truth_Total_Engagement),
     Average_Engagement |-> FormatFloat(row.Average_Engagement),
     X_Average_Engagement |-> FormatFloat(row.X_Average_Engagement),
     Truth_Average_Engagement |-> FormatFloat(row.Truth_Average_Engagement)]

to_csv(rows) == [i \in 1..Len(rows) |-> to_csv_row(rows[i])]

\* Fault: the lines added to what the file held.
write_csv_append(file, lines) == File(file.rows \o lines)

\* DataFrame.to_csv(path, index=False): the file holds the new lines and
\* nothing of what it held before.
write_csv(file, lines) == File(lines)

\* pd.read_csv(raw_data_path): a missing file raises, and __main__ catches it.
AggLoad ==
    /\ aggPc = "start"
    /\ IF rawFile.exists
       THEN /\ df_raw' = rawFile.rows
            /\ tagIdx' = 1
            /\ aggPc' = "loop"
       ELSE /\ aggPc' = "failed"
            /\ UNCHANGED <<df_raw, tagIdx>>
    /\ UNCHANGED <<results, df_processed, rawFile, procFile, resultFile,
                   rollVars>>
    /\ UNCHANGED <<normVars, ordVars, moreVars>>

\* for tag_id in all_expected_tags: ... results.append({...})
AggProcessTag ==
    /\ aggPc = "loop"
    /\ tagIdx <= Len(all_expected_tags)
    /\ results' = results_append(results,
                                 tag_row(df_raw, all_expected_tags[tagIdx]))
    /\ tagIdx' = tagIdx + 1
    /\ aggPc' = IF tagIdx = Len(all_expected_tags) THEN "save" ELSE "loop"
    /\ UNCHANGED <<df_raw, df_processed, rawFile, procFile, resultFile,
                   rollVars>>
    /\ UNCHANGED <<normVars, ordVars, moreVars>>

\* pd.DataFrame(results), sort_values, to_csv, return df_processed
AggSortSave ==
    /\ aggPc = "save"
    /\ df_processed' = sort_values(results)
    /\ procFile' = write_csv(procFile, to_csv(df_processed'))
    /\ aggPc' = "done"
    /\ UNCHANGED <<df_raw, tagIdx, results, rawFile, resultFile, rollVars>>
    /\ UNCHANGED <<normVars, ordVars, moreVars>>

----------------------------------------------------------------------------
(* Engagement_overall_processor.py *)

\* One line of pd.read_csv(Engagement_data_processed.csv): numeric cells parsed.
read_csv_row(line) ==
    [Tag_id |-> line.Tag_id, Category_id |-> line.Category_id,
     Frequency_Count |-> ParseInt(line.Frequency_Count),
     Frequency_Pct |-> ParseFloat(line.Frequency_Pct),
     Total_Likes |-> ParseInt(line.Total_Likes),
     Total_Reposts |-> ParseInt(line.Total_Reposts),
     Total_Comments |-> ParseInt(line.Total_Comments),
     Total_Engagement |-> ParseInt(line.Total_Engagement),
     X_Total_Engagement |-> ParseInt(line.X_Total_Engagement),
     Truth_Total_Engagement |-> ParseInt(line.Truth_Total_Engagement),
     Average_Engagement |-> ParseFloat(line.Average_Engagement),
     X_Average_Engagement |-> ParseFloat(line.X_Average_Engagement),
     Truth_Average_Engagement |-> ParseFloat(line.Truth_Average_Engagement)]

read_csv(lines) == [i \in 1..Len(lines) |-> read_csv_row(lines[i])]

None == [none |-> TRUE, index |-> {}, columns |-> {}, size |-> <<>>]

\* df_raw.groupby(['Category_id', 'Platform']).size().unstack(fill_value=0):
\* one line per category and one column per platform that occur in the file.
crosstab(rows) ==
    LET index == { rows[i].Category_id : i \in 1..Len(rows) }
        columns == { rows[i].Platform : i \in 1..Len(rows) }
    IN  [none |-> FALSE, index |-> index, columns |-> columns,
         size |-> [k \in index \X columns |->
                     Cardinality({ i \in 1..Len(rows) :
                         /\ rows[i].Category_id = k[1]
                         /\ rows[i].Platform = k[2] })]]

\* load_raw_data(): the crosstab, or None when the raw file is not found.
load_raw_data(file) == IF file.exists THEN crosstab(file.rows) ELSE None

\* Fault: the categories visited in another order.
categories_c_first == <<"C", "A", "B">>

\* for category in ['A', 'B', 'C']
categories == <<"A", "B", "C">>

category_names(category) ==
    CASE category = "A" -> "Subjugating the Bureaucracy"
      [] category = "B" -> "Waging Culture Wars"
      [] category = "C" -> "Remaking Power Structures"

\* Fault: the category filter left out.
category_data_all(table, category) == table

\* df[df['Category_id'] == category]
category_data(table, category) ==
    SelectSeq(table, LAMBDA row : row.Category_id = category)

\* Fault: the platform frequency always inferred from engagement.
platform_frequency_inferred(stats, data, category, platform, column) ==
    Len(SelectSeq(data, LAMBDA row : row[column] > 0))

\* x_frequency / truth_frequency of one category: the raw post count of the
\* crosstab, or else the number of the category's tags with platform
\* engagement.
platform_frequency(stats, data, category, platform, column) ==
    IF ~stats.none /\ platform \in stats.columns
    THEN IF category \in stats.index
         THEN stats.size[<<category, platform>>]
         ELSE 0
    ELSE Len(SelectSeq(data, LAMBDA row : row[column] > 0))

Pad3(n) == <<Digits[(n \div 100) + 1], Digits[((n \div 10) % 10) + 1],
             Digits[(n % 10) + 1]>>

\* f"{n:,}"
RECURSIVE FormatComma(_)
FormatComma(n) ==
    IF n < 1000 THEN FormatInt(n)
    ELSE FormatComma(n \div 1000) \o <<",">> \o Pad3(n % 1000)

\* f"{x:.2f}%" of a value given in hundredths
FormatPct(h) ==
    FormatInt(h \div 100) \o <<".">> \o
    <<Digits[((h % 100) \div 10) + 1], Digits[(h % 10) + 1], "%">>

\* (frequency / total_posts) * 100 if total_posts > 0 else 0, as f"{:.2f}%"
frequency_pct(frequency, total) ==
    FormatPct(IF total > 0 THEN round2(frequency * 100, total) ELSE 0)

\* f"{total / frequency if frequency > 0 else 0:,.0f}"
avg_engagement(total, frequency) ==
    FormatComma(IF frequency > 0 THEN round0(total, frequency) ELSE 0)

\* Fault: the tags of the category counted, not their posts.
combined_frequency_tags(data) == Len(data)

\* combined_frequency = category_data['Frequency (Count)'].sum()
combined_frequency_of(data) == column_sum(data, "Frequency_Count")

\* Fault: every field of a platform row shown as soon as the category has
\* records on the platform.
platform_row_by_frequency(category, platform, frequency, total, posts) ==
    [Category_ID |-> category, Category_Name |-> category_names(category),
     Platform |-> platform,
     Frequency_Count |-> IF frequency > 0 THEN <<frequency>> ELSE <<>>,
     Frequency_Pct |->
         IF frequency > 0 THEN frequency_pct(frequency, posts) ELSE <<>>,
     Total_Engagement |-> IF frequency > 0 THEN FormatComma(total) ELSE <<>>,
     Average_Engagement |->
         IF frequency > 0 THEN avg_engagement(total, frequency) ELSE <<>>]

\* A platform row of one category.
platform_row(category, platform, frequency, total, posts) ==
    [Category_ID |-> category, Category_Name |-> category_names(category),
     Platform |-> platform,
     Frequency_Count |-> IF frequency > 0 THEN <<frequency>> ELSE <<>>,
     Frequency_Pct |->
         IF frequency > 0 THEN frequency_pct(frequency, posts) ELSE <<>>,
     Total_Engagement |-> IF total > 0 THEN FormatComma(total) ELSE <<>>,
     Average_Engagement |->
         IF frequency > 0 /\ total > 0
         THEN avg_engagement(total, frequency)
         ELSE <<>>]

\* One iteration of the loop over ['A', 'B', 'C']: the Combined row, the X row
\* and the Truth Social row.
category_rows(table, stats, posts, category) ==
    LET data == category_data(table, category)
        combined_frequency == combined_frequency_of(data)
        combined_total_engagement == column_sum(data, "Total_Engagement")
        x_frequency ==
            platform_frequency(stats, data, category, "X",
                               "X_Total_Engagement")
        x_total_engagement == column_sum(data, "X_Total_Engagement")
        truth_frequency ==
            platform_frequency(stats, data, category, "Truth Social",
                               "Truth_Total_Engagement")
        truth_total_engagement == column_sum(data, "Truth_Total_Engagement")
    IN  << [Category_ID |-> category,
            Category_Name |-> category_names(category),
            Platform |-> "Combined",
            Frequency_Count |-> <<combined_frequency>>,
            Frequency_Pct |-> frequency_pct(combined_frequency, posts),
            Total_Engagement |-> FormatComma(combined_total_engagement),
            Average_Engagement |->
                avg_engagement(combined_total_engagement, combined_frequency)],
           platform_row(category, "X", x_frequency, x_total_engagement, posts),
           platform_row(category, "Truth Social", truth_frequency,
                        truth_total_engagement, posts) >>

\* Fault: the number of tag rows taken for the number of posts.
total_posts_rows(table) == Len(table)

\* total_posts = df['Frequency (Count)'].sum()
total_posts_of(table) == column_sum(table, "Frequency_Count")

\* The TOTAL row.
total_row(table, posts) ==
    [Category_ID |-> "TOTAL", Category_Name |-> "All Categories",
     Platform |-> "Combined",
     Frequency_Count |-> <<posts>>,
     Frequency_Pct |-> <<"1", "0", "0", "%">>,
     Total_Engagement |-> FormatComma(column_sum(table, "Total_Engagement")),
     Average_Engagement |->
         avg_engagement(column_sum(table, "Total_Engagement"), posts)]

\* One line of df_result.to_csv(...): the count cell as text, '' as nothing.
result_csv_row(row) ==
    [row EXCEPT !.Frequency_Count =
        IF row.Frequency_Count = <<>> THEN <<>>
        ELSE FormatInt(row.Frequency_Count[1])]

result_to_csv(rows) == [i \in 1..Len(rows) |-> result_csv_row(rows[i])]

\* The raw file is removed after the aggregator ran and before the rollup
\* runs: load_raw_data() then meets FileNotFoundError.
RawFileRemoved ==
    /\ aggPc = "done"
    /\ rollPc = "start"
    /\ rawFile.exists
    /\ rawFile' = NoFile
    /\ UNCHANGED <<procFile, resultFile, aggVars, rollVars>>
    /\ UNCHANGED <<normVars, ordVars, moreVars>>

\* main(): df = load_processed_data(); if df is None: return
RollLoadProcessed ==
    /\ rollPc = "start"
    /\ aggPc \in {"done", "failed"}
    /\ IF procFile.exists
       THEN /\ df' = read_csv(procFile.rows)
            /\ rollPc' = "calc"
       ELSE /\ rollPc' = "failed"
            /\ UNCHANGED df
    /\ UNCHANGED <<platform_stats, total_posts, catIdx, catResults, rawFile,
                   procFile, resultFile, aggVars>>
    /\ UNCHANGED <<normVars, ordVars, moreVars>>

\* calculate_category_stats: platform_stats = load_raw_data(); total_posts
RollLoadRaw ==
    /\ rollPc = "calc"
    /\ platform_stats' = load_raw_data(rawFile)
    /\ total_posts' = total_posts_of(df)
    /\ catIdx' = 1
    /\ rollPc' = "loop"
    /\ UNCHANGED <<df, catResults, rawFile, procFile, resultFile, aggVars>>
    /\ UNCHANGED <<normVars, ordVars, moreVars>>

\* for category in ['A', 'B', 'C']: ... three results.append({...})
RollCategory ==
    /\ rollPc = "loop"
    /\ catIdx <= Len(categories)
    /\ catResults' = catResults \o
           category_rows(df, platform_stats, total_posts, categories[catIdx])
    /\ catIdx' = catIdx + 1
    /\ rollPc' = IF catIdx = Len(categories) THEN "total" ELSE "loop"
    /\ UNCHANGED <<df, platform_stats, total_posts, rawFile, procFile,
                   resultFile, aggVars>>
    /\ UNCHANGED <<normVars, ordVars, moreVars>>

\* results.append({'Category ID': 'TOTAL', ...}); return results
RollTotal ==
    /\ rollPc = "total"
    /\ catResults' = Append(catResults, total_row(df, total_posts))
    /\ rollPc' = "save"
    /\ UNCHANGED <<df, platform_stats, total_posts, catIdx, rawFile, procFile,
                   resultFile, aggVars>>
    /\ UNCHANGED <<normVars, ordVars, moreVars>>

\* save_results(results): df_result.to_csv(output_file, index=False)
RollSave ==
    /\ rollPc = "save"
    /\ resultFile' = write_csv(resultFile, result_to_csv(catResults))
    /\ rollPc' = "done"
    /\ UNCHANGED <<df, platform_stats, total_posts, catIdx, catResults,
                   rawFile, procFile, aggVars>>
    /\ UNCHANGED <<normVars, ordVars, moreVars>>

----------------------------------------------------------------------------
(* strategic_signal_matrix_X.py and strategic_signal_matrix_truth_media.py:
   load_and_process_data and the frequency calculation it calls.  The quotient
   Total / Average and the percentage are unrounded floats in the code and
   exact fractions here; an average is a number of hundredths, so
   Total / Average is 100 * Total over that number. *)

\* A row of the table with the two columns the normalizer adds.
with_columns(row, count_column, count, percent_column, percent) ==
    [c \in DOMAIN row \cup {count_column, percent_column} |->
        IF c = count_column THEN count
        ELSE IF c = percent_column THEN percent
        ELSE row[c]]

\* x_freq_count = row['X_Total_Engagement'] / row['X_Average_Engagement']
\*                if row['X_Average_Engagement'] > 0 else 0
x_freq_count(row) ==
    IF row.X_Average_Engagement > 0
    THEN Quotient(100 * row.X_Total_Engagement, row.X_Average_Engagement)
    ELSE <<0, 1>>

\* Fault: the quotient cut to an integer instead of rounded.
x_frequency_count_truncated(row) ==
    IF row.X_Average_Engagement > 0
    THEN x_freq_count(row)[1] \div x_freq_count(row)[2]
    ELSE 0

\* df.at[idx, 'X_Frequency_Count'] = round(x_freq_count), or 0
x_frequency_count(row) ==
    IF row.X_Average_Engagement > 0
    THEN round0(x_freq_count(row)[1], x_freq_count(row)[2])
    ELSE 0

\* Fault: the posts of every platform taken for the posts on X.
RECURSIVE total_x_posts_all_platforms(_)
total_x_posts_all_platforms(table) ==
    IF table = <<>> THEN <<0, 1>>
    ELSE QuotientSum(<<table[1].Frequency_Count, 1>>,
                     total_x_posts_all_platforms(Tail(table)))

\* total_x_posts: 0, then += x_freq_count for each row with a positive average
RECURSIVE total_x_posts_of(_)
total_x_posts_of(table) ==
    IF table = <<>> THEN <<0, 1>>
    ELSE QuotientSum(IF table[1].X_Average_Engagement > 0
                     THEN x_freq_count(table[1]) ELSE <<0, 1>>,
                     total_x_posts_of(Tail(table)))

\* x_freq_pct = (row['X_Frequency_Count'] / total_x_posts) * 100
\*              if total_x_posts > 0, else 0
x_frequency_percent(count, posts) ==
    IF posts[1] > 0 THEN Quotient(count * 100 * posts[2], posts[1])
    ELSE <<0, 1>>

calculate_x_frequency_percentage(table) ==
    LET posts == total_x_posts_of(table)
    IN  [df |-> [i \in 1..Len(table) |->
                    with_columns(table[i],
                        "X_Frequency_Count", x_frequency_count(table[i]),
                        "X_Frequency_Percent",
                        x_frequency_percent(x_frequency_count(table[i]),
                                            posts))],
         total_x_posts |-> posts]

truth_freq_count(row) ==
    IF row.Truth_Average_Engagement > 0
    THEN Quotient(100 * row.Truth_Total_Engagement,
                  row.Truth_Average_Engagement)
    ELSE <<0, 1>>

truth_frequency_count(row) ==
    IF row.Truth_Average_Engagement > 0
    THEN round0(truth_freq_count(row)[1], truth_freq_count(row)[2])
    ELSE 0

RECURSIVE total_truth_posts_of(_)
total_truth_posts_of(table) ==
    IF table = <<>> THEN <<0, 1>>
    ELSE QuotientSum(IF table[1].Truth_Average_Engagement > 0
                     THEN truth_freq_count(table[1]) ELSE <<0, 1>>,
                     total_truth_posts_of(Tail(table)))

truth_frequency_percent(count, posts) ==
    IF posts[1] > 0 THEN Quotient(count * 100 * posts[2], posts[1])
    ELSE <<0, 1>>

calculate_truth_frequency_percentage(table) ==
    LET posts == total_truth_posts_of(table)
    IN  [df |-> [i \in 1..Len(table) |->
                    with_columns(table[i],
                        "Truth_Frequency_Count",
                        truth_frequency_count(table[i]),
                        "Truth_Frequency_Percent",
                        truth_frequency_percent(
                            truth_frequency_count(table[i]), posts))],
         total_truth_posts |-> posts]

\* The charts are drawn once the two tables are made.
TablesMade == aggPc \in {"done", "failed"} /\ rollPc \in {"done", "failed"}

\* X: load_and_process_data(): find_data_file, read_csv, the rows with
\* X_Average_Engagement > 0, calculate_x_frequency_percentage; None when the
\* processed file is not found, and None when no row is left (the summary
\* line then reads a column no row was given, and the KeyError is caught).
NormX ==
    /\ xPc = "start"
    /\ TablesMade
    /\ IF procFile.exists
       THEN LET calculated ==
                    calculate_x_frequency_percentage(
                        SelectSeq(read_csv(procFile.rows),
                                  LAMBDA row : row.X_Average_Engagement > 0))
            IN  /\ df_x_filtered' = calculated.df
                /\ total_x_posts' = calculated.total_x_posts
                /\ xPc' = IF Len(calculated.df) > 0 THEN "done" ELSE "failed"
       ELSE /\ xPc' = "failed"
            /\ UNCHANGED <<df_x_filtered, total_x_posts>>
    /\ UNCHANGED <<truthPc, df_truth_filtered, total_truth_posts>>
    /\ UNCHANGED <<rawFile, procFile, resultFile, aggVars, rollVars, ordVars,
                   moreVars>>

\* Truth Social: the same steps on the Truth columns.
NormTruth ==
    /\ truthPc = "start"
    /\ TablesMade
    /\ IF procFile.exists
       THEN LET calculated ==
                    calculate_truth_frequency_percentage(
                        SelectSeq(read_csv(procFile.rows),
                            LAMBDA row : row.Truth_Average_Engagement > 0))
            IN  /\ df_truth_filtered' = calculated.df
                /\ total_truth_posts' = calculated.total_truth_posts
                /\ truthPc' =
                       IF Len(calculated.df) > 0 THEN "done" ELSE "failed"
       ELSE /\ truthPc' = "failed"
            /\ UNCHANGED <<df_truth_filtered, total_truth_posts>>
    /\ UNCHANGED <<xPc, df_x_filtered, total_x_posts>>
    /\ UNCHANGED <<rawFile, procFile, resultFile, aggVars, rollVars, ordVars,
                   moreVars>>

----------------------------------------------------------------------------
(* The loop of load_and_process_data run twice on the same raw table, over two
   orderings of one taxonomy list in which a code is part of another
   (A1 in A10). *)

OverlappingTags == { <<"A", "1">>, <<"A", "1", "0">>, <<"B", "2">> }

\* The orderings of the list.
TagOrderings ==
    { o \in [1..Cardinality(OverlappingTags) -> OverlappingTags] :
        \A i, j \in DOMAIN o : i # j => o[i] # o[j] }

OverlapPool ==
    { RawRecord(Str(<<"A", "1">>), "A", "X", 10, 1, 0),
      RawRecord(Str(<<"A", "1", "0">>), "A", "X", 7, 0, 0),
      RawRecord(Str(<<"B", "2">>), "B", "Truth Social", 5, 0, 1) }

OverlapTables == UNION { [1..n -> OverlapPool] : n \in 0..MaxRecs }

\* The loop and the sort as one function of the raw table and the list: the
\* rows of the first n tags, and the table returned.
RECURSIVE loop_results(_, _, _)
loop_results(raw, tags, n) ==
    IF n = 0 THEN <<>>
    ELSE results_append(loop_results(raw, tags, n - 1), tag_row(raw, tags[n]))

load_and_process_data(raw, tags) ==
    sort_values(loop_results(raw, tags, Len(tags)))

\* for tag_id in all_expected_tags: ... results.append({...}), in both loops
OrdProcessTag ==
    /\ ordPc = "loop"
    /\ ordIdx <= Cardinality(OverlappingTags)
    /\ ordResults' =
           [k \in 1..2 |->
               results_append(ordResults[k],
                              tag_row(ordRaw, ordTags[k][ordIdx]))]
    /\ ordIdx' = ordIdx + 1
    /\ ordPc' = IF ordIdx = Cardinality(OverlappingTags) THEN "save"
                ELSE "loop"
    /\ UNCHANGED <<ordRaw, ordTags, ordProcessed>>
    /\ UNCHANGED <<rawFile, procFile, resultFile, aggVars, rollVars, normVars,
                   moreVars>>

\* pd.DataFrame(results), sort_values, in both loops
OrdSort ==
    /\ ordPc = "save"
    /\ ordProcessed' = [k \in 1..2 |-> sort_values(ordResults[k])]
    /\ ordPc' = "done"
    /\ UNCHANGED <<ordRaw, ordTags, ordIdx, ordResults>>
    /\ UNCHANGED <<rawFile, procFile, resultFile, aggVars, rollVars, normVars,
                   moreVars>>

----------------------------------------------------------------------------
(* trump_x_content_selenium_scraper.py: extract_tweet_data and
   _extract_with_retry *)

\* What a call of extract_tweet_data meets: the page does not load (driver.get
\* or _extract_author_info raises inside the try block), it loads and
\* _extract_tweet_text finds a text, it loads and no text is found, or an
\* error is raised before the try block is entered.  The steps after the text
\* (_extract_publish_date, _extract_engagement_data_improved) catch every
\* exception themselves.
PageLoads == {"load error", "text", "no text found", "raises"}

\* extract_tweet_data(url): the fields of result the retry loop looks at.
extract_tweet_data(page) ==
    IF page = "load error"
    THEN [extraction_status |-> "failed", text |-> "",
          error_message |-> "load error"]
    ELSE [extraction_status |-> "success",
          text |-> IF page = "no text found" THEN "no text" ELSE "tweet",
          error_message |-> ""]

\* What an attempt ended in: the result of extract_tweet_data, or the
\* exception it raised.
Returned(result) == [raised |-> FALSE, result |-> result]
Raised == [raised |-> TRUE,
           result |-> [extraction_status |-> "", text |-> "",
                       error_message |-> "raised"]]
call_extract_tweet_data(page) ==
    IF page = "raises" THEN Raised ELSE Returned(extract_tweet_data(page))

\* Fault: no result taken as final.
has_data_never(result) == FALSE

\* if result['extraction_status'] == 'success' or result['text']
has_data(result) == result.extraction_status = "success" \/ result.text # ""

\* Fault: no attempt retried.
retry_never(n, retries) == FALSE

\* if attempt < max_retries
retry_allowed(n, retries) == n < retries

\* for attempt in range(max_retries + 1): there is an iteration after n
range_has_next(n, retries) == n + 1 < retries + 1

\* The dict returned after the loop.
all_attempts_failed ==
    [extraction_status |-> "failed", text |-> "",
     error_message |-> "All attempts failed"]

NoResult == [extraction_status |-> "", text |-> "", error_message |-> ""]

\* One iteration of the loop up to return, continue, or the end of the except
\* branch.
RetryAttempt ==
    /\ retPc = "call"
    /\ \E page \in PageLoads :
        LET outcome == call_extract_tweet_data(page)
            result == outcome.result
        IN  /\ attempts' = Append(attempts, outcome)
            /\ IF ~outcome.raised
               THEN /\ UNCHANGED last_error
                    /\ IF has_data(result)
                       THEN /\ retResult' = result
                            /\ retPc' = "returned"
                            /\ UNCHANGED attempt
                       ELSE IF retry_allowed(attempt, max_retries)
                       THEN /\ retPc' = "sleep"
                            /\ UNCHANGED <<retResult, attempt>>
                       ELSE /\ retResult' = result
                            /\ retPc' = "returned"
                            /\ UNCHANGED attempt
               ELSE /\ last_error' = result.error_message
                    /\ IF retry_allowed(attempt, max_retries)
                       THEN /\ retPc' = "sleep"
                            /\ UNCHANGED <<retResult, attempt>>
                       ELSE IF range_has_next(attempt, max_retries)
                       THEN /\ attempt' = attempt + 1
                            /\ UNCHANGED <<retResult, retPc>>
                       ELSE /\ retResult' = all_attempts_failed
                            /\ retPc' = "returned"
                            /\ UNCHANGED attempt
    /\ UNCHANGED max_retries
    /\ UNCHANGED <<pipeVars, whVars, fetchVars>>

\* time.sleep(5); continue
RetrySleep ==
    /\ retPc = "sleep"
    /\ attempt' = attempt + 1
    /\ retPc' = "call"
    /\ UNCHANGED <<max_retries, last_error, retResult, attempts>>
    /\ UNCHANGED <<pipeVars, whVars, fetchVars>>

\* _extract_with_retry is not running.
RetryIdle ==
    /\ retPc = "off"
    /\ max_retries = 0
    /\ attempt = 0
    /\ last_error = ""
    /\ retResult = NoResult
    /\ attempts = <<>>

----------------------------------------------------------------------------
(* whitehouse_original_text_scraper.py *)

\* What requests.get(url) meets: a page with text, a page without any, a
\* status code other than 200, a request that raises.
Pages == {"text", "no text", "status 404", "timeout"}

\* extract_content(url, ...): the Link and the Status of the dict returned.
extract_content(link) ==
    [Link |-> link.url,
     Content |-> CASE link.page = "text" -> "text of the page"
                   [] link.page = "no text" ->
                        "Content parsing failed, unable to find main text"
                   [] link.page = "status 404" -> "Extraction failed"
                   [] link.page = "timeout" -> "Request exception",
     Status |-> CASE link.page = "text" -> "Success"
                  [] link.page = "no text" -> "Failed"
                  [] link.page = "status 404" -> "Failed"
                  [] link.page = "timeout" -> "Exception"]

\* save_content_to_csv(contents, output_file): the file opened for writing,
\* one row per content with ID = its position counted from 1.
save_content_to_csv(list) ==
    File([idx \in 1..Len(list) |->
            [ID |-> idx, Link |-> list[idx].Link,
             Content |-> list[idx].Content, Status |-> list[idx].Status]])

\* Fault: no save inside the loop.
checkpoint_never(i) == FALSE

\* if i % 10 == 0
checkpoint_due(i) == i % 10 = 0

\* One iteration of the loop of main: extract_content, append, count, the
\* save every 10 links, time.sleep(1).
WhProcessLink ==
    /\ whPc = "loop"
    /\ whI < Len(links)
    /\ LET i == whI + 1
           content == extract_content(links[i])
       IN  /\ whI' = i
           /\ contents' = Append(contents, content)
           /\ IF content.Status = "Success"
              THEN /\ success_count' = success_count + 1
                   /\ UNCHANGED fail_count
              ELSE /\ fail_count' = fail_count + 1
                   /\ UNCHANGED success_count
           /\ IF checkpoint_due(i)
              THEN whFile' = save_content_to_csv(contents')
              ELSE UNCHANGED whFile
    /\ UNCHANGED <<whPc, links>>
    /\ UNCHANGED <<pipeVars, retryVars, fetchVars>>

\* After the loop: the final save.
WhFinalSave ==
    /\ whPc = "loop"
    /\ whI = Len(links)
    /\ whFile' = save_content_to_csv(contents)
    /\ whPc' = "done"
    /\ UNCHANGED <<links, whI, contents, success_count, fail_count>>
    /\ UNCHANGED <<pipeVars, retryVars, fetchVars>>

\* main is not running.
WhIdle ==
    /\ whPc = "off"
    /\ links = <<>>
    /\ whI = 0
    /\ contents = <<>>
    /\ success_count = 0
    /\ fail_count = 0
    /\ whFile = NoFile

----------------------------------------------------------------------------
(* trump_truth_social_scraper.py: get_trump_truth_posts, and
   trump_x_content_scraper.py: get_trump_tweets *)

\* A date parameter: None, or a date (a day number, made timezone-aware by
\* pytz.UTC.localize when it was not).
NoDate == <<>>
Date(d) == <<d>>

\* An item of data["data"].  id 0 stands for a missing or empty id.  The date
\* field is absent, not parsable, or a date with or without a timezone.
Item(id, kind, d) == [id |-> id, date |-> [kind |-> kind, d |-> d]]

\* What a request is answered with: a page of items, a page without data, a
\* response that is no JSON (or a request that raises), a status code other
\* than 200.
DataPage(items) == [kind |-> "data", items |-> items]
EmptyPage == [kind |-> "empty", items |-> <<>>]
ErrorPage == [kind |-> "error", items |-> <<>>]
StatusPage == [kind |-> "status", items |-> <<>>]

PageA == DataPage(<<Item(1, "aware", 2), Item(2, "aware", 1)>>)
PageB == DataPage(<<Item(1, "aware", 2), Item(3, "aware", 3)>>)
PageC == DataPage(<<Item(0, "aware", 2), Item(4, "absent", 0)>>)
PageD == DataPage(<<Item(5, "aware", 3), Item(5, "aware", 3),
                    Item(6, "bad", 0)>>)
PageE == DataPage(<<Item(7, "aware", 0)>>)
PageF == DataPage(<<Item(0, "aware", 1), Item(8, "naive", 2)>>)

ApiPages ==
    {PageA, PageB, PageC, PageD, PageE, PageF, EmptyPage, ErrorPage,
     StatusPage}

\* date_parser.parse(post["date"]) inside try/except: None when the field is
\* absent or not parsable
parse_date(date) ==
    IF date.kind \in {"aware", "naive"} THEN Date(date.d) ELSE NoDate

\* post_date < start_date / post_date > end_date raises TypeError when the
\* parsed date has no timezone: the parameters always have one.
compare_raises(date, start, end) ==
    /\ date.kind = "naive"
    /\ start # NoDate \/ end # NoDate

\* in_range after the date-range check
in_range_of(post_date, start, end) ==
    /\ post_date # NoDate
    /\ start = NoDate \/ ~(post_date[1] < start[1])
    /\ end = NoDate \/ ~(post_date[1] > end[1])

\* Fault: no id taken as seen before.
already_processed_never(id, ids) == FALSE

\* if post_id and post_id in processed_ids
already_processed(id, ids) == id # 0 /\ id \in ids

\* The dict appended to the result: "date" is the parsed date formatted
\* without its timezone.
post_data(post, post_date) == [id |-> post.id, date |-> post_date]

\* for post in items: ..., from item k on.  acc is the state of the loop:
\* the result list, processed_ids, records_in_range, and whether an exception
\* left the loop.
RECURSIVE process_items(_, _, _, _, _)
process_items(items, k, acc, start, end) ==
    IF k > Len(items) \/ acc.raised THEN acc
    ELSE LET post == items[k]
             ids == IF post.id # 0 THEN acc.ids \cup {post.id} ELSE acc.ids
             post_date == parse_date(post.date)
             in_range == in_range_of(post_date, start, end)
         IN  IF already_processed(post.id, acc.ids)
             THEN process_items(items, k + 1, acc, start, end)
             ELSE IF compare_raises(post.date, start, end)
             THEN [acc EXCEPT !.ids = ids, !.raised = TRUE]
             ELSE process_items(items, k + 1,
                      [posts |-> IF in_range
                                 THEN Append(acc.posts,
                                             post_data(post, post_date))
                                 ELSE acc.posts,
                       ids |-> ids,
                       records_in_range |->
                           acc.records_in_range + (IF in_range THEN 1 ELSE 0),
                       raised |-> FALSE],
                      start, end)

\* get_trump_truth_posts, lines 97-99: the dates of the first and of the last
\* item are parsed outside any inner try.
debug_parse_raises(items) ==
    \/ items[1].date.kind = "bad"
    \/ items[Len(items)].date.kind = "bad"

\* get_trump_truth_posts, lines 170-174: no record of the page in range and
\* its last date before start_date.  The comparison raises on a date without
\* timezone.
early_stop_raises(acc, items, start) ==
    /\ acc.records_in_range = 0
    /\ items[Len(items)].date.kind = "naive"
    /\ start # NoDate
early_stop(acc, items, start) ==
    /\ acc.records_in_range = 0
    /\ items[Len(items)].date.kind = "aware"
    /\ start # NoDate
    /\ items[Len(items)].date.d < start[1]

\* if not data or "data" not in data or not data["data"]: break in
\* get_trump_truth_posts, continue in get_trump_tweets
empty_page_ends(which) == which = "truth"

\* if response.status_code != 200: break, in get_trump_tweets only; the curl
\* call of get_trump_truth_posts does not look at the status, and the body is
\* then parsed like any other.
status_ends(which) == which = "x"

\* One iteration of for page in range(1, max_pages + 1).
FetchPage ==
    /\ fPc = "loop"
    /\ \E response \in ApiPages :
        LET items == response.items
            before == [posts |-> all_posts, ids |-> processed_ids,
                       records_in_range |-> 0, raised |-> FALSE]
            skipped == fetcher = "truth" /\ response.kind = "data"
                       /\ debug_parse_raises(items)
            acc == IF response.kind = "data" /\ ~skipped
                   THEN process_items(items, 1, before, start_date, end_date)
                   ELSE before
            break ==
                \/ response.kind = "empty" /\ empty_page_ends(fetcher)
                \/ response.kind = "status" /\ status_ends(fetcher)
                \/ /\ response.kind = "data"
                   /\ fetcher = "truth"
                   /\ ~skipped
                   /\ ~acc.raised
                   /\ ~early_stop_raises(acc, items, start_date)
                   /\ early_stop(acc, items, start_date)
        IN  /\ requested' = Append(requested, response)
            /\ all_posts' = acc.posts
            /\ processed_ids' = acc.ids
            /\ IF break \/ fPage = max_pages
               THEN /\ fPc' = "return"
                    /\ UNCHANGED fPage
               ELSE /\ fPage' = fPage + 1
                    /\ UNCHANGED fPc
    /\ UNCHANGED <<fetcher, start_date, end_date, max_pages>>
    /\ UNCHANGED <<pipeVars, retryVars, whVars>>

\* return all_truth_posts / return all_tweets
FetchReturn ==
    /\ fPc = "return"
    /\ fPc' = "done"
    /\ UNCHANGED <<fetcher, start_date, end_date, max_pages, fPage, all_posts,
                   processed_ids, requested>>
    /\ UNCHANGED <<pipeVars, retryVars, whVars>>

\* No fetcher is running.
FetchIdle ==
    /\ fPc = "off"
    /\ fetcher = "truth"
    /\ start_date = NoDate
    /\ end_date = NoDate
    /\ max_pages = 0
    /\ fPage = 0
    /\ all_posts = <<>>
    /\ processed_ids = {}
    /\ requested = <<>>

----------------------------------------------------------------------------
(* The pipeline *)

\* No script has started.
ScriptsInit ==
    /\ procFile = NoFile
    /\ resultFile = NoFile
    /\ aggPc = "start"
    /\ df_raw = <<>>
    /\ tagIdx = 0
    /\ results = <<>>
    /\ df_processed = <<>>
    /\ rollPc = "start"
    /\ df = <<>>
    /\ platform_stats = None
    /\ total_posts = 0
    /\ catIdx = 0
    /\ catResults = <<>>
    /\ xPc = "start"
    /\ df_x_filtered = <<>>
    /\ total_x_posts = <<0, 1>>
    /\ truthPc = "start"
    /\ df_truth_filtered = <<>>
    /\ total_truth_posts = <<0, 1>>
    /\ seenFile = NoFile

\* Nothing has been run before.
FirstRun ==
    /\ run = 1
    /\ prevProcFile = NoFile
    /\ prevResultFile = NoFile

\* No scraper is running.
ScrapersIdle == RetryIdle /\ WhIdle /\ FetchIdle

Init ==
    /\ rawFile \in { File(t) : t \in RawTables } \cup {NoFile}
    /\ ScriptsInit
    /\ FirstRun
    /\ ScrapersIdle
    /\ ordPc = "off"
    /\ ordRaw = <<>>
    /\ ordTags = <<>>
    /\ ordIdx = 0
    /\ ordResults = <<>>
    /\ ordProcessed = <<>>

\* The aggregator and the rollup.
Next ==
    \/ AggLoad
    \/ AggProcessTag
    \/ AggSortSave
    \/ RawFileRemoved
    \/ RollLoadProcessed
    \/ RollLoadRaw
    \/ RollCategory
    \/ RollTotal
    \/ RollSave

Spec == Init /\ [][Next]_vars

\* The aggregator, the rollup and the two normalizers.
NextNorm ==
    \/ AggLoad
    \/ AggProcessTag
    \/ AggSortSave
    \/ RawFileRemoved
    \/ RollLoadProcessed
    \/ RollLoadRaw
    \/ RollCategory
    \/ RollTotal
    \/ RollSave
    \/ NormX
    \/ NormTruth

SpecNorm == Init /\ [][NextNorm]_vars

\* The pipeline started a second time on the same raw file: both scripts are
\* new processes, and the files are what the first run left.
Rerun ==
    /\ run = 1
    /\ aggPc \in {"done", "failed"}
    /\ rollPc \in {"done", "failed"}
    /\ run' = 2
    /\ prevProcFile' = procFile
    /\ prevResultFile' = resultFile
    /\ aggPc' = "start"
    /\ df_raw' = <<>>
    /\ tagIdx' = 0
    /\ results' = <<>>
    /\ df_processed' = <<>>
    /\ rollPc' = "start"
    /\ df' = <<>>
    /\ platform_stats' = None
    /\ total_posts' = 0
    /\ catIdx' = 0
    /\ catResults' = <<>>
    /\ UNCHANGED <<rawFile, procFile, resultFile, normVars, ordVars, raceVars,
                   scrapeVars>>

\* The aggregator and the rollup, twice, the raw file left alone.
NextRerun ==
    \/ AggLoad
    \/ AggProcessTag
    \/ AggSortSave
    \/ RollLoadProcessed
    \/ RollLoadRaw
    \/ RollCategory
    \/ RollTotal
    \/ RollSave
    \/ Rerun

SpecRerun == Init /\ [][NextRerun]_vars

\* The rollup started while the aggregator may still be running.  to_csv is
\* open(path, 'w') followed by buffered writes that reach the file when it is
\* closed (the 22 lines are far less than one buffer).

\* pd.DataFrame(results), sort_values, and to_csv as far as open(path, 'w'):
\* the file exists and holds nothing, not even the header line.
RaceSortOpen ==
    /\ aggPc = "save"
    /\ df_processed' = sort_values(results)
    /\ procFile' = File(<<>>)
    /\ aggPc' = "write"
    /\ UNCHANGED <<df_raw, tagIdx, results, rawFile, resultFile, rollVars>>
    /\ UNCHANGED <<normVars, ordVars, moreVars>>

\* to_csv from the first write to the close of the file, return df_processed
RaceWriteClose ==
    /\ aggPc = "write"
    /\ procFile' = write_csv(procFile, to_csv(df_processed))
    /\ aggPc' = "done"
    /\ UNCHANGED <<df_raw, tagIdx, results, df_processed, rawFile, resultFile,
                   rollVars>>
    /\ UNCHANGED <<normVars, ordVars, moreVars>>

\* main(): df = load_processed_data(); if df is None: return.  A missing file
\* is a FileNotFoundError and a file without a line an EmptyDataError; both
\* are caught and None is returned.
RaceLoadProcessed ==
    /\ rollPc = "start"
    /\ seenFile' = procFile
    /\ IF procFile.exists /\ Len(procFile.rows) > 0
       THEN /\ df' = read_csv(procFile.rows)
            /\ rollPc' = "calc"
       ELSE /\ rollPc' = "failed"
            /\ UNCHANGED df
    /\ UNCHANGED <<platform_stats, total_posts, catIdx, catResults, rawFile,
                   procFile, resultFile, aggVars>>
    /\ UNCHANGED <<normVars, ordVars, histVars, scrapeVars>>

\* The aggregator and the rollup as two processes started together.
NextRace ==
    \/ AggLoad
    \/ AggProcessTag
    \/ RaceSortOpen
    \/ RaceWriteClose
    \/ RaceLoadProcessed
    \/ RollLoadRaw
    \/ RollCategory
    \/ RollTotal
    \/ RollSave

SpecRace == Init /\ [][NextRace]_vars

\* The two loops over the orderings of the overlapping taxonomy.
InitOrder ==
    /\ rawFile = NoFile
    /\ ScriptsInit
    /\ FirstRun
    /\ ScrapersIdle
    /\ ordPc = "loop"
    /\ ordRaw \in OverlapTables
    /\ ordTags \in TagOrderings \X TagOrderings
    /\ ordIdx = 1
    /\ ordResults = << <<>>, <<>> >>
    /\ ordProcessed = << <<>>, <<>> >>

NextOrder ==
    \/ OrdProcessTag
    \/ OrdSort

SpecOrder == InitOrder /\ [][NextOrder]_vars

\* No script of the pipeline is running.
PipelineIdle ==
    /\ rawFile = NoFile
    /\ ScriptsInit
    /\ FirstRun
    /\ ordPc = "off"
    /\ ordRaw = <<>>
    /\ ordTags = <<>>
    /\ ordIdx = 0
    /\ ordResults = <<>>
    /\ ordProcessed = <<>>

\* _extract_with_retry(url, max_retries) entered; process_csv_file calls it
\* with max_retries = 2.
InitRetry ==
    /\ PipelineIdle
    /\ WhIdle
    /\ FetchIdle
    /\ retPc = "call"
    /\ max_retries \in 0..MaxRetries
    /\ attempt = 0
    /\ last_error = ""
    /\ retResult = NoResult
    /\ attempts = <<>>

NextRetry ==
    \/ RetryAttempt
    \/ RetrySleep

SpecRetry == InitRetry /\ [][NextRetry]_vars

\* The loop is sequential code: it takes its next step.
SpecRetryLive == SpecRetry /\ WF_vars(NextRetry)

\* The lists read_csv_links returns: up to MaxLinks links, numbered in file
\* order, the pages behind them repeating with period 3.
LinkLists ==
    { [k \in 1..n |-> [url |-> k, page |-> pattern[k % 3]]] :
        n \in 0..MaxLinks, pattern \in [0..2 -> Pages] }

\* main() after read_csv_links: contents = [], both counts 0, and no output
\* file yet.
InitWh ==
    /\ PipelineIdle
    /\ RetryIdle
    /\ FetchIdle
    /\ whPc = "loop"
    /\ links \in LinkLists
    /\ whI = 0
    /\ contents = <<>>
    /\ success_count = 0
    /\ fail_count = 0
    /\ whFile = NoFile

NextWh ==
    \/ WhProcessLink
    \/ WhFinalSave

SpecWh == InitWh /\ [][NextWh]_vars

\* One of the two fetchers entered, with or without bounds on the date.
InitFetch ==
    /\ PipelineIdle
    /\ RetryIdle
    /\ WhIdle
    /\ fPc = "loop"
    /\ fetcher \in {"truth", "x"}
    /\ start_date \in {NoDate, Date(1)}
    /\ end_date \in {NoDate, Date(2)}
    /\ max_pages \in 1..MaxPages
    /\ fPage = 1
    /\ all_posts = <<>>
    /\ processed_ids = {}
    /\ requested = <<>>

NextFetch ==
    \/ FetchPage
    \/ FetchReturn

SpecFetch == InitFetch /\ [][NextFetch]_vars

----------------------------------------------------------------------------
(* What the properties are stated in: the taxonomy, and which records mention
   a tag, counted directly on the raw table. *)

TaxonomyTags ==
    { <<"A", Digits[k + 1]>> : k \in 1..6 }
    \cup { <<"B", Digits[k + 1]>> : k \in 1..8 }
    \cup { <<"C", Digits[k + 1]>> : k \in 1..8 }

\* The two characters of code stand next to each other in the cell.
Occurs(code, cell) ==
    /\ ~cell.na
    /\ \E i \in 1..(Len(cell.s) - 1) :
           cell.s[i] = code[1] /\ cell.s[i + 1] = code[2]

\* The taxonomy codes a record's Tag_id carries.
CodesIn(rec) == { t \in TaxonomyTags : Occurs(t, rec.Tag_id) }

\* The records (by position) that mention tag.
MatchIdx(raw, tag) == { i \in 1..Len(raw) : Occurs(tag, raw[i].Tag_id) }

RECURSIVE SumIdx(_, _, _)
SumIdx(S, raw, column) ==
    IF S = {} THEN 0
    ELSE LET i == CHOOSE j \in S : TRUE
         IN  raw[i][column] + SumIdx(S \ {i}, raw, column)

\* The row of tag in a tag-level table, when there is exactly one.
RowsOf(table, tag) == { i \in 1..Len(table) : table[i].Tag_id = tag }
RowOf(table, tag) == table[CHOOSE i \in RowsOf(table, tag) : TRUE]

\* The sum of Frequency (Count) over the rows of a tag-level table that a
\* test selects.
RECURSIVE CountSum(_, _)
CountSum(table, S) ==
    IF S = {} THEN 0
    ELSE LET i == CHOOSE j \in S : TRUE
         IN  table[i].Frequency_Count + CountSum(table, S \ {i})

\* Frequency (Count) and every other numeric field of a tag row are 0.
AllNumericZero(row) ==
    /\ row.Frequency_Count = 0
    /\ row.Frequency_Pct = 0
    /\ row.Total_Likes = 0
    /\ row.Total_Reposts = 0
    /\ row.Total_Comments = 0
    /\ row.Total_Engagement = 0
    /\ row.X_Total_Engagement = 0
    /\ row.Truth_Total_Engagement = 0
    /\ row.Average_Engagement = 0
    /\ row.X_Average_Engagement = 0
    /\ row.Truth_Average_Engagement = 0

AllRows(table) == 1..Len(table)
RowsOfCategory(table, c) == { i \in 1..Len(table) : table[i].Category_id = c }

AggDone == aggPc = "done"

\* calculate_category_stats has returned its rows.
RollReturned == rollPc \in {"save", "done"}

\* The row of a category and platform in the category-level rows.
CatRow(rows, c, p) ==
    rows[CHOOSE i \in 1..Len(rows) :
            rows[i].Category_ID = c /\ rows[i].Platform = p]

\* A Frequency (Count) cell read as a number, an empty cell as 0.
CellCount(cell) == IF cell = <<>> THEN 0 ELSE cell[1]

\* Every record carries exactly one taxonomy code / at most one.
ExactMatching(raw) ==
    \A i \in 1..Len(raw) : Cardinality(CodesIn(raw[i])) = 1
AtMostOneCode(raw) ==
    \A i \in 1..Len(raw) : Cardinality(CodesIn(raw[i])) <= 1

----------------------------------------------------------------------------
(* Claims *)

C2_TotalEngagementIsSumOfParts ==
    AggDone =>
        \A i \in 1..Len(df_processed) :
            LET row == df_processed[i]
                M == MatchIdx(df_raw, row.Tag_id)
            IN  /\ row.Total_Likes = SumIdx(M, df_raw, "Likes")
                /\ row.Total_Reposts = SumIdx(M, df_raw, "Repost")
                /\ row.Total_Comments = SumIdx(M, df_raw, "Replies")
                /\ row.Total_Engagement =
                       row.Total_Likes + row.Total_Reposts + row.Total_Comments

\* C2 witness: a row whose three parts are all positive.
C2_Witness ==
    /\ AggDone
    /\ \E i \in 1..Len(df_processed) :
           /\ df_processed[i].Total_Likes > 0
           /\ df_processed[i].Total_Reposts > 0
           /\ df_processed[i].Total_Comments > 0

C4_AverageIsExactQuotient ==
    AggDone =>
        \A i \in 1..Len(df_processed) :
            LET row == df_processed[i]
            IN  IF row.Frequency_Count > 0
                THEN row.Average_Engagement * row.Frequency_Count
                         = 100 * row.Total_Engagement
                ELSE row.Average_Engagement = 0

\* C4 amended: Average_Engagement is Total_Engagement / Frequency (Count)
\* rounded to two decimals (a value with two decimals at most 0.005 away from
\* the quotient) when the count is positive, and 0 when it is 0.
C4_AverageIsQuotientRoundedTo2 ==
    AggDone =>
        \A i \in 1..Len(df_processed) :
            LET row == df_processed[i]
                diff == row.Average_Engagement * row.Frequency_Count
                            - 100 * row.Total_Engagement
            IN  IF row.Frequency_Count > 0
                THEN 2 * diff <= row.Frequency_Count
                     /\ - 2 * diff <= row.Frequency_Count
                ELSE row.Average_Engagement = 0

\* C4 witness: a row whose quotient has more than two decimals.
C4_Witness ==
    /\ AggDone
    /\ \E i \in 1..Len(df_processed) :
           /\ df_processed[i].Frequency_Count > 0
           /\ (100 * df_processed[i].Total_Engagement)
                  % df_processed[i].Frequency_Count # 0

\* C5 as stated: when no record's Tag_id contains more than one taxonomy
\* code, the Frequency (Count) of the 22 rows sum to the number of records.
C5_CountsSumWhenAtMostOneCode ==
    (AggDone /\ AtMostOneCode(df_raw)) =>
        CountSum(df_processed, AllRows(df_processed)) = Len(df_raw)

\* C5 amended: when every record's Tag_id contains exactly one taxonomy code,
\* the Frequency (Count) of the 22 rows sum to the number of records.
C5_CountsSumWhenExactlyOneCode ==
    (AggDone /\ ExactMatching(df_raw)) =>
        CountSum(df_processed, AllRows(df_processed)) = Len(df_raw)

\* C5 witness: an output of two or more records with one code each, on
\* different tags.
C5_Witness ==
    /\ AggDone
    /\ ExactMatching(df_raw)
    /\ Len(df_raw) >= 2
    /\ \E i, j \in 1..Len(df_raw) : CodesIn(df_raw[i]) # CodesIn(df_raw[j])

Scenario ==
    << RawRecord(Str(<<"A", "1">>), "A", "X", 10, 1, 0),
       RawRecord(Str(<<"A", "1">>), "A", "X", 20, 2, 1),
       RawRecord(Str(<<"B", "2">>), "B", "X", 5, 0, 1) >>

\* C6: on the three records A1, A1, B2 (all on X; likes 10, 20, 5; reposts
\* 1, 2, 0; replies 0, 1, 1) the output has A1 with count 2, total engagement
\* 34 and average 17, B2 with count 1 and total engagement 6, every other tag
\* all zero, and the counts sum to 3.
C6_Scenario ==
    (AggDone /\ df_raw = Scenario) =>
        /\ RowOf(df_processed, <<"A", "1">>).Frequency_Count = 2
        /\ RowOf(df_processed, <<"A", "1">>).Total_Engagement = 34
        /\ RowOf(df_processed, <<"A", "1">>).Average_Engagement = 1700
        /\ RowOf(df_processed, <<"B", "2">>).Frequency_Count = 1
        /\ RowOf(df_processed, <<"B", "2">>).Total_Engagement = 6
        /\ \A t \in TaxonomyTags \ {<<"A", "1">>, <<"B", "2">>} :
               AllNumericZero(RowOf(df_processed, t))
        /\ CountSum(df_processed, AllRows(df_processed)) = 3

\* C6 witness: the aggregator has finished on the scenario's file.
C6_Witness == AggDone /\ df_raw = Scenario /\ Len(df_processed) = 22

\* The raw records of category c (by its Category_id column) on platform p:
\* one cell of the category x platform crosstab, counted on the raw table.
RawCount(raw, c, p) ==
    Cardinality({ i \in 1..Len(raw) :
                    raw[i].Category_id = c /\ raw[i].Platform = p })

\* The sum, over the taxonomy tags of category c, of the number of records on
\* platform p that mention the tag.
RECURSIVE MentionsOnPlatform(_, _, _)
MentionsOnPlatform(raw, T, p) ==
    IF T = {} THEN 0
    ELSE LET t == CHOOSE u \in T : TRUE
         IN  Cardinality({ i \in MatchIdx(raw, t) : raw[i].Platform = p })
             + MentionsOnPlatform(raw, T \ {t}, p)

TagsOfCategory(c) == { t \in TaxonomyTags : t[1] = c }

CategoryIds == {"A", "B", "C"}
Platforms == {"X", "Truth Social"}

\* C7: for each category, the Frequency (Count) of its Combined row is the sum
\* of Frequency (Count) over the tag rows of that category.
C7_CombinedCountIsSumOfTagCounts ==
    RollReturned =>
        \A c \in CategoryIds :
            CatRow(catResults, c, "Combined").Frequency_Count =
                <<CountSum(df_processed, RowsOfCategory(df_processed, c))>>

\* C7 witness: the rollup has returned and two tags of one category both have
\* mentions, next to a category with mentions of its own.
C7_Witness ==
    /\ RollReturned
    /\ RowOf(df_processed, <<"A", "1">>).Frequency_Count > 0
    /\ RowOf(df_processed, <<"A", "2">>).Frequency_Count > 0
    /\ RowOf(df_processed, <<"B", "2">>).Frequency_Count > 0

\* C8 as stated: for every input the TOTAL row has Frequency (Count) equal to
\* the number of raw input records, and Frequency (%) equal to 100%.
C8_TotalCountIsRecordCount ==
    RollReturned =>
        /\ CatRow(catResults, "TOTAL", "Combined").Frequency_Count
               = <<Len(df_raw)>>
        /\ CatRow(catResults, "TOTAL", "Combined").Frequency_Pct
               = <<"1", "0", "0", "%">>

\* C8 amended: the TOTAL row has Frequency (Count) equal to the sum of
\* Frequency (Count) over the 22 tag rows, which is the number of raw input
\* records whenever every record's Tag_id contains exactly one taxonomy code,
\* and Frequency (%) equal to 100%.
C8_TotalCountIsSumOfTagCounts ==
    RollReturned =>
        /\ CatRow(catResults, "TOTAL", "Combined").Frequency_Count
               = <<CountSum(df_processed, AllRows(df_processed))>>
        /\ ExactMatching(df_raw) =>
               CatRow(catResults, "TOTAL", "Combined").Frequency_Count
                   = <<Len(df_raw)>>
        /\ CatRow(catResults, "TOTAL", "Combined").Frequency_Pct
               = <<"1", "0", "0", "%">>

\* C8 witness: the TOTAL row of a file of several records with one code each.
C8_Witness ==
    /\ RollReturned
    /\ ExactMatching(df_raw)
    /\ Len(df_raw) >= 2
    /\ Len(catResults) = 10
    /\ catResults[10].Category_ID = "TOTAL"

C10_PlatformCountFromRawCounts ==
    (rollPc = "done" /\ resultFile.exists) =>
        \A c \in CategoryIds : \A p \in Platforms :
            CellCount(CatRow(catResults, c, p).Frequency_Count)
                = RawCount(df_raw, c, p)

\* The ten (Category ID, Platform) pairs of the category-level output, in the
\* order the spec lists them.
ExpectedCategoryRows ==
    << <<"A", "Combined">>, <<"A", "X">>, <<"A", "Truth Social">>,
       <<"B", "Combined">>, <<"B", "X">>, <<"B", "Truth Social">>,
       <<"C", "Combined">>, <<"C", "X">>, <<"C", "Truth Social">>,
       <<"TOTAL", "Combined">> >>

RowIds(rows) ==
    [i \in 1..Len(rows) |-> <<rows[i].Category_ID, rows[i].Platform>>]

\* C11: calculate_category_stats returns exactly 10 rows in a fixed order: for
\* A, then B, then C, the Combined row, the X row and the Truth Social row,
\* and the TOTAL Combined row last; the saved file has the same ten lines.
C11_TenRowsInFixedOrder ==
    /\ RollReturned => RowIds(catResults) = ExpectedCategoryRows
    /\ resultFile.exists => RowIds(resultFile.rows) = ExpectedCategoryRows

\* C11 witness: the rollup has written its file for a raw file with records.
C11_Witness ==
    /\ rollPc = "done"
    /\ resultFile.exists
    /\ Len(resultFile.rows) = 10
    /\ Len(df_raw) > 0

\* likes + reposts + replies summed over the records on platform p that
\* mention a tag of T, once for each tag they mention.
RECURSIVE PlatformEngagement(_, _, _)
PlatformEngagement(raw, T, p) ==
    IF T = {} THEN 0
    ELSE LET t == CHOOSE u \in T : TRUE
             S == { i \in MatchIdx(raw, t) : raw[i].Platform = p }
         IN  SumIdx(S, raw, "Likes") + SumIdx(S, raw, "Repost")
             + SumIdx(S, raw, "Replies")
             + PlatformEngagement(raw, T \ {t}, p)

\* C12 as stated (for runs that read the raw file): the four fields of a
\* category's platform row are all empty when the category has no raw record
\* on the platform, and all filled when it has at least one.
C12_PlatformFieldsEmptyIffNoRecords ==
    (RollReturned /\ ~platform_stats.none) =>
        \A c \in CategoryIds : \A p \in Platforms :
            LET row == CatRow(catResults, c, p)
            IN  IF RawCount(df_raw, c, p) = 0
                THEN /\ row.Frequency_Count = <<>>
                     /\ row.Frequency_Pct = <<>>
                     /\ row.Total_Engagement = <<>>
                     /\ row.Average_Engagement = <<>>
                ELSE /\ row.Frequency_Count # <<>>
                     /\ row.Frequency_Pct # <<>>
                     /\ row.Total_Engagement # <<>>
                     /\ row.Average_Engagement # <<>>

\* C12 amended: each field of a platform row is empty exactly when its own
\* figure is 0.  Frequency (Count) and Frequency (%) are empty together, and
\* when the rollup reads the raw file exactly when the category has no raw
\* record on the platform; Total Engagement is empty exactly when the
\* platform engagement of the category's tags is 0; Average Engagement is
\* empty exactly when one of the two is.
C12_PlatformFieldEmptyIffItsFigureIsZero ==
    RollReturned =>
        \A c \in CategoryIds : \A p \in Platforms :
            LET row == CatRow(catResults, c, p)
            IN  /\ (row.Frequency_Count = <<>>) <=> (row.Frequency_Pct = <<>>)
                /\ ~platform_stats.none =>
                       ((row.Frequency_Count = <<>>)
                            <=> (RawCount(df_raw, c, p) = 0))
                /\ (row.Total_Engagement = <<>>)
                       <=> (PlatformEngagement(df_raw, TagsOfCategory(c), p)
                                = 0)
                /\ (row.Average_Engagement = <<>>)
                       <=> (row.Frequency_Count = <<>>
                                \/ row.Total_Engagement = <<>>)

\* C12 witness: the raw file was read, a category has a record on a platform
\* and nobody reacted to it: the row shows the count and no engagement.
C12_Witness ==
    /\ RollReturned
    /\ ~platform_stats.none
    /\ RawCount(df_raw, "A", "X") > 0
    /\ PlatformEngagement(df_raw, TagsOfCategory("A"), "X") = 0
    /\ CatRow(catResults, "A", "X").Frequency_Count # <<>>
    /\ CatRow(catResults, "A", "X").Total_Engagement = <<>>

\* The records on platform p that mention tag.
PlatformMatchIdx(raw, tag, p) ==
    { i \in MatchIdx(raw, tag) : raw[i].Platform = p }

\* The averages and the percentage of a list of tag rows, against the raw
\* table they were computed from: none is the result of a division by zero,
\* and each is 0 when its denominator is.
TagRowsGuarded(rows, raw) ==
    \A i \in 1..Len(rows) :
        LET row == rows[i]
            mentions == Cardinality(MatchIdx(raw, row.Tag_id))
            on_x == Cardinality(PlatformMatchIdx(raw, row.Tag_id, "X"))
            on_truth ==
                Cardinality(PlatformMatchIdx(raw, row.Tag_id, "Truth Social"))
        IN  /\ row.Frequency_Pct # DivisionByZero
            /\ row.Average_Engagement # DivisionByZero
            /\ row.X_Average_Engagement # DivisionByZero
            /\ row.Truth_Average_Engagement # DivisionByZero
            /\ Len(raw) = 0 => row.Frequency_Pct = 0
            /\ mentions = 0 => row.Average_Engagement = 0
            /\ on_x = 0 => row.X_Average_Engagement = 0
            /\ on_truth = 0 => row.Truth_Average_Engagement = 0

\* The same of the category-level rows: a zero frequency gives the average
\* "0" in a Combined row and an empty average in a platform row, and zero
\* total posts give the percentage "0.00%".
CategoryRowsGuarded(rows, posts) ==
    \A i \in 1..Len(rows) :
        LET row == rows[i]
        IN  /\ (row.Platform = "Combined" /\ row.Frequency_Count = <<0>>)
                   => row.Average_Engagement = <<"0">>
            /\ (row.Platform # "Combined" /\ row.Frequency_Count = <<>>)
                   => row.Average_Engagement = <<>>
            /\ (posts = 0 /\ row.Category_ID # "TOTAL")
                   => row.Frequency_Pct \in {<<>>, <<"0", ".", "0", "0", "%">>}

\* C13: no run of the tag aggregator, the category rollup or a frequency
\* normalizer divides by zero: no average, percentage or mention count it
\* computes is the result of a division by zero, and each is 0 (an empty cell
\* in a platform row of the rollup) when its denominator is 0, a raw file
\* without records included.
C13_NoDivisionByZero ==
    /\ TagRowsGuarded(results, df_raw)
    /\ TagRowsGuarded(df_processed, df_raw)
    /\ CategoryRowsGuarded(catResults, total_posts)
    /\ total_x_posts[1] # DivisionByZero
    /\ total_truth_posts[1] # DivisionByZero
    /\ \A i \in 1..Len(df_x_filtered) :
           /\ df_x_filtered[i].X_Frequency_Count # DivisionByZero
           /\ df_x_filtered[i].X_Frequency_Percent[1] # DivisionByZero
           /\ total_x_posts[1] = 0 =>
                  df_x_filtered[i].X_Frequency_Percent = <<0, 1>>
    /\ \A i \in 1..Len(df_truth_filtered) :
           /\ df_truth_filtered[i].Truth_Frequency_Count # DivisionByZero
           /\ df_truth_filtered[i].Truth_Frequency_Percent[1] # DivisionByZero
           /\ total_truth_posts[1] = 0 =>
                  df_truth_filtered[i].Truth_Frequency_Percent = <<0, 1>>
    /\ (AggDone /\ Len(df_raw) = 0) =>
           \A i \in 1..Len(df_processed) : AllNumericZero(df_processed[i])

\* C13 witness: every script has run on a raw file in which a tag is mentioned
\* on Truth Social only (its X average has a zero denominator) and a category
\* is not mentioned at all (its Combined average has one).
C13_Witness ==
    /\ AggDone
    /\ rollPc = "done"
    /\ xPc # "start"
    /\ truthPc = "done"
    /\ Cardinality(MatchIdx(df_raw, <<"A", "2">>)) > 0
    /\ PlatformMatchIdx(df_raw, <<"A", "2">>, "X") = {}
    /\ CatRow(catResults, "C", "Combined").Frequency_Count = <<0>>

\* C14: a stage that misses one of its input files stops and writes no output
\* file: the aggregator without Engagement_data_raw.csv leaves no processed
\* file, and the rollup without Engagement_data_processed.csv or without
\* Engagement_data_raw.csv computes no rows and leaves no result file.
C14_MissingInputNoOutput ==
    /\ aggPc = "failed" => ~procFile.exists
    /\ rollPc = "failed" => ~resultFile.exists
    /\ (rollPc \in {"loop", "total", "save", "done"} /\ platform_stats.none)
           => (catResults = <<>> /\ ~resultFile.exists)

\* The number of (record, taxonomy code) pairs in which the record's Tag_id
\* contains the code.
RECURSIVE CodeMentions(_)
CodeMentions(raw) ==
    IF raw = <<>> THEN 0
    ELSE Cardinality(CodesIn(raw[1])) + CodeMentions(Tail(raw))

\* C15: a record counts toward tag T exactly when its Tag_id contains T's code
\* as a substring (a missing Tag_id matches nothing), and a record whose
\* Tag_id contains several codes is counted, with all its likes, reposts and
\* replies, in the row of each of those codes.
C15_CountedInEveryCodeItContains ==
    AggDone =>
        /\ \A t \in TaxonomyTags :
            LET row == RowOf(df_processed, t)
                M == MatchIdx(df_raw, t)
            IN  /\ row.Frequency_Count = Cardinality(M)
                /\ row.Total_Likes = SumIdx(M, df_raw, "Likes")
                /\ row.Total_Reposts = SumIdx(M, df_raw, "Repost")
                /\ row.Total_Comments = SumIdx(M, df_raw, "Replies")
        /\ CountSum(df_processed, AllRows(df_processed)) = CodeMentions(df_raw)

\* C15 witness: a record that carries the codes A2 and B2 is counted in both
\* rows, next to a record with a missing Tag_id that is counted in none.
C15_Witness ==
    /\ AggDone
    /\ Len(df_raw) = 2
    /\ CodesIn(df_raw[1]) = { <<"A", "2">>, <<"B", "2">> }
    /\ df_raw[2].Tag_id.na
    /\ RowOf(df_processed, <<"A", "2">>).Frequency_Count = 1
    /\ RowOf(df_processed, <<"B", "2">>).Frequency_Count = 1
    /\ RowOf(df_processed, <<"A", "2">>).Total_Likes = df_raw[1].Likes
    /\ RowOf(df_processed, <<"B", "2">>).Total_Likes = df_raw[1].Likes

\* A record of OverlapPool mentions a code of OverlappingTags: its Tag_id is
\* the code, or the code is A1 and the Tag_id is A10.
MentionsOverlapping(rec, t) ==
    \/ rec.Tag_id = Str(t)
    \/ t = <<"A", "1">> /\ rec.Tag_id = Str(<<"A", "1", "0">>)

\* C16 as stated: there are a record set and two orderings of a taxonomy list
\* with overlapping codes for which the aggregate computed for some tag
\* differs (looked for among all record sets and orderings once two loops are
\* through).
C16_SomeOrderingsDisagree ==
    ordPc = "done" =>
        \E raw \in OverlapTables : \E o1, o2 \in TagOrderings :
            \E t \in OverlappingTags :
                RowOf(load_and_process_data(raw, o1), t)
                    # RowOf(load_and_process_data(raw, o2), t)

\* C16 amended: with overlapping codes the attribution does not depend on the
\* order of the taxonomy list: for every record set and every two orderings
\* the two runs return the same table, in which a record tagged A10 is counted
\* under A10 and under A1 alike.
C16_OrderingsAgree ==
    ordPc = "done" =>
        /\ ordProcessed[1] = ordProcessed[2]
        /\ \A k \in 1..2 :
            /\ ordProcessed[k] = load_and_process_data(ordRaw, ordTags[k])
            /\ \A t \in OverlappingTags :
                /\ Cardinality(RowsOf(ordProcessed[k], t)) = 1
                /\ RowOf(ordProcessed[k], t).Frequency_Count =
                       Cardinality({ i \in 1..Len(ordRaw) :
                           MentionsOverlapping(ordRaw[i], t) })

\* C16 witness: both loops are through; one visited A1 first and the other
\* A10 first, and the raw table has a record tagged A10 and one tagged A1.
C16_Witness ==
    /\ ordPc = "done"
    /\ ordTags[1][1] = <<"A", "1">>
    /\ ordTags[2][1] = <<"A", "1", "0">>
    /\ \E i \in 1..Len(ordRaw) : ordRaw[i].Tag_id = Str(<<"A", "1", "0">>)
    /\ \E i \in 1..Len(ordRaw) : ordRaw[i].Tag_id = Str(<<"A", "1">>)
    /\ RowOf(ordProcessed[1], <<"A", "1">>).Frequency_Count = Len(ordRaw)
    /\ RowOf(ordProcessed[2], <<"A", "1", "0">>).Frequency_Count >= 1

\* likes + reposts + replies over the records on platform p that mention tag.
PlatformSum(raw, tag, p) ==
    SumIdx(PlatformMatchIdx(raw, tag, p), raw, "Likes")
    + SumIdx(PlatformMatchIdx(raw, tag, p), raw, "Repost")
    + SumIdx(PlatformMatchIdx(raw, tag, p), raw, "Replies")

\* The platform columns of a tag row.
PlatformTotalOf(row, p) ==
    IF p = "X" THEN row.X_Total_Engagement ELSE row.Truth_Total_Engagement
PlatformAverageOf(row, p) ==
    IF p = "X" THEN row.X_Average_Engagement
    ELSE row.Truth_Average_Engagement

\* C17 as stated: for every tag and platform, the platform total is the sum of
\* likes + reposts + replies over the tag's records on the platform, and the
\* platform average is exactly that total divided by the number of those
\* records, 0 when there are none.  (Averages are in hundredths.)
C17_PlatformAverageIsExactQuotient ==
    AggDone =>
        \A t \in TaxonomyTags : \A p \in Platforms :
            LET row == RowOf(df_processed, t)
                n == Cardinality(PlatformMatchIdx(df_raw, t, p))
            IN  /\ PlatformTotalOf(row, p) = PlatformSum(df_raw, t, p)
                /\ IF n > 0
                   THEN PlatformAverageOf(row, p) * n
                            = 100 * PlatformSum(df_raw, t, p)
                   ELSE PlatformAverageOf(row, p) = 0

\* C17 amended: the platform total is that sum, and the platform average is
\* the total divided by the number of the tag's records on the platform,
\* rounded to two decimals (at most 0.005 away from the quotient), 0 when
\* there are none; the tag's records on other platforms do not enter it.
C17_PlatformAverageIsQuotientRoundedTo2 ==
    AggDone =>
        \A t \in TaxonomyTags : \A p \in Platforms :
            LET row == RowOf(df_processed, t)
                n == Cardinality(PlatformMatchIdx(df_raw, t, p))
                diff == PlatformAverageOf(row, p) * n
                            - 100 * PlatformSum(df_raw, t, p)
            IN  /\ PlatformTotalOf(row, p) = PlatformSum(df_raw, t, p)
                /\ IF n > 0
                   THEN 2 * diff <= n /\ - 2 * diff <= n
                   ELSE PlatformAverageOf(row, p) = 0

\* C17 witness: a tag whose X quotient has more than two decimals, and a tag
\* with no record on Truth Social.
C17_Witness ==
    /\ AggDone
    /\ \E t \in TaxonomyTags :
           /\ Cardinality(PlatformMatchIdx(df_raw, t, "X")) > 0
           /\ (100 * PlatformSum(df_raw, t, "X"))
                  % Cardinality(PlatformMatchIdx(df_raw, t, "X")) # 0
           /\ PlatformMatchIdx(df_raw, t, "Truth Social") = {}
           /\ RowOf(df_processed, t).X_Average_Engagement > 0

\* The taxonomy in its declaration order: A1..A6, B1..B8, C1..C8.
DeclarationOrder ==
    [i \in 1..22 |->
        IF i <= 6 THEN <<"A", Digits[i + 1]>>
        ELSE IF i <= 14 THEN <<"B", Digits[i - 5]>>
        ELSE <<"C", Digits[i - 13]>>]

\* The code point of a character of a taxonomy code.
CodePoint(c) ==
    CASE c = "A" -> 65
      [] c = "B" -> 66
      [] c = "C" -> 67
      [] OTHER -> 48 + DigitVal(c)

\* (Category_id, Tag_id) of row a comes before that of row b, the strings
\* compared character by character (the codes have two characters).
KeyBefore(a, b) ==
    \/ CodePoint(a.Category_id) < CodePoint(b.Category_id)
    \/ /\ a.Category_id = b.Category_id
       /\ \/ CodePoint(a.Tag_id[1]) < CodePoint(b.Tag_id[1])
          \/ /\ a.Tag_id[1] = b.Tag_id[1]
             /\ CodePoint(a.Tag_id[2]) < CodePoint(b.Tag_id[2])

\* C18: the rows of the tag-level output are sorted by Category_id and then by
\* Tag_id, which for the declared taxonomy is its declaration order
\* A1..A6, B1..B8, C1..C8, in the table returned and in the file written;
\* every row's Category_id is the first character of its Tag_id.
C18_SortedInDeclarationOrder ==
    AggDone =>
        /\ \A i, j \in 1..Len(df_processed) :
               i < j => KeyBefore(df_processed[i], df_processed[j])
        /\ [i \in 1..Len(df_processed) |-> df_processed[i].Tag_id]
               = DeclarationOrder
        /\ [i \in 1..Len(procFile.rows) |-> procFile.rows[i].Tag_id]
               = DeclarationOrder
        /\ \A i \in 1..Len(df_processed) :
               df_processed[i].Category_id = df_processed[i].Tag_id[1]

\* C18 witness: the sorted output of a raw file whose records mention tags of
\* the categories in another order than the taxonomy's (C8 before A1).
C18_Witness ==
    /\ AggDone
    /\ Len(df_raw) >= 2
    /\ df_raw[1].Tag_id = Str(<<"C", "8">>)
    /\ df_raw[2].Tag_id = Str(<<"A", "1">>)
    /\ df_processed[1].Tag_id = <<"A", "1">>
    /\ df_processed[1].Frequency_Count > 0
    /\ df_processed[22].Tag_id = <<"C", "8">>

\* A normalizer has run on the processed file; the table it made, and the
\* mention count it derived in a row.
NormalizerRan(p) ==
    /\ procFile.exists
    /\ IF p = "X" THEN xPc # "start" ELSE truthPc # "start"
NormalizedTable(p) == IF p = "X" THEN df_x_filtered ELSE df_truth_filtered
DerivedCount(row, p) ==
    IF p = "X" THEN row.X_Frequency_Count ELSE row.Truth_Frequency_Count

PlatformRecords(raw, p) ==
    Cardinality({ i \in 1..Len(raw) : raw[i].Platform = p })

\* The denominator a normalizer used.
TotalPlatformPosts(p) == IF p = "X" THEN total_x_posts ELSE total_truth_posts
DerivedPercent(row, p) ==
    IF p = "X" THEN row.X_Frequency_Percent ELSE row.Truth_Frequency_Percent

\* A fraction in lowest terms.
Lowest(f) ==
    IF f[1] = 0 THEN <<0, 1>>
    ELSE <<f[1] \div GCD(f[1], f[2]), f[2] \div GCD(f[1], f[2])>>

\* The sum, over the tags of T whose platform average in the tag-level output
\* is positive, of platform total / platform average, as a fraction in lowest
\* terms (the average is in hundredths).
RECURSIVE QuotientsOver(_, _, _)
QuotientsOver(table, T, p) ==
    IF T = {} THEN <<0, 1>>
    ELSE LET t == CHOOSE u \in T : TRUE
             rest == QuotientsOver(table, T \ {t}, p)
             total == PlatformTotalOf(RowOf(table, t), p)
             average == PlatformAverageOf(RowOf(table, t), p)
             this == Lowest(<<100 * total, average>>)
         IN  IF average > 0
             THEN Lowest(<<this[1] * rest[2] + rest[1] * this[2],
                           this[2] * rest[2]>>)
             ELSE rest

\* Every record on platform p carries exactly one taxonomy code, and every
\* tag with records on p has a positive platform engagement whose average has
\* no more than two decimals.
PlatformFiguresExact(raw, p) ==
    /\ \A i \in 1..Len(raw) :
           raw[i].Platform = p => Cardinality(CodesIn(raw[i])) = 1
    /\ \A t \in TaxonomyTags :
           LET n == Cardinality(PlatformMatchIdx(raw, t, p))
           IN  n > 0 => /\ PlatformSum(raw, t, p) > 0
                        /\ (100 * PlatformSum(raw, t, p)) % n = 0

----------------------------------------------------------------------------
\* Both scripts of the second run have returned.
SecondRunOver ==
    /\ run = 2
    /\ aggPc \in {"done", "failed"}
    /\ rollPc \in {"done", "failed"}

----------------------------------------------------------------------------
\* C22: the write of an output file is a single atomic overwrite: the
\* tag-level file, whenever it exists, holds the complete output of one run
\* (one line per taxonomy tag), and that is what a rollup racing the
\* aggregator reads.  Violated: between the opening and the closing of the
\* file by to_csv it exists and is empty, and the rollup reads it so.
C22_OutputFileAlwaysComplete ==
    /\ procFile.exists => Len(procFile.rows) = Len(all_expected_tags)
    /\ (rollPc # "start" /\ seenFile.exists) =>
           Len(seenFile.rows) = Len(all_expected_tags)

----------------------------------------------------------------------------
\* likes + reposts + replies of the records at the positions S.
EngagementOver(S, raw) ==
    SumIdx(S, raw, "Likes") + SumIdx(S, raw, "Repost")
    + SumIdx(S, raw, "Replies")

\* The records that mention tag and are on neither X nor Truth Social.
OtherPlatformIdx(raw, tag) ==
    { i \in MatchIdx(raw, tag) : raw[i].Platform \notin Platforms }

----------------------------------------------------------------------------
\* A Total Engagement cell read as a number: the thousands separators
\* dropped, an empty cell as 0.
CellNumber(cell) ==
    IF cell = <<>> THEN 0
    ELSE ParseInt(SelectSeq(cell, LAMBDA ch : ch # ","))

\* Every record carries exactly one taxonomy code, its Category_id is the
\* first character of that code, and it is on X or on Truth Social.
CleanRecords(raw) ==
    \A i \in 1..Len(raw) :
        /\ ~raw[i].Tag_id.na
        /\ raw[i].Tag_id.s \in TaxonomyTags
        /\ raw[i].Category_id = raw[i].Tag_id.s[1]
        /\ raw[i].Platform \in Platforms

\* In the rows of category c, the X row and the Truth Social row add up to
\* the Combined row, in Frequency (Count) and in Total Engagement.
PlatformRowsAddUp(rows, c) ==
    /\ CellCount(CatRow(rows, c, "X").Frequency_Count)
       + CellCount(CatRow(rows, c, "Truth Social").Frequency_Count)
           = CellCount(CatRow(rows, c, "Combined").Frequency_Count)
    /\ CellNumber(CatRow(rows, c, "X").Total_Engagement)
       + CellNumber(CatRow(rows, c, "Truth Social").Total_Engagement)
           = CellNumber(CatRow(rows, c, "Combined").Total_Engagement)

\* C24: when every raw record carries exactly one taxonomy code, has the
\* code's first character as Category_id and is on X or Truth Social, then in
\* each category the Frequency (Count) of the X row plus that of the Truth
\* Social row (an empty field counting as 0) is the Frequency (Count) of the
\* Combined row, and likewise for Total Engagement.  Violated when the rollup
\* does not find the raw file and infers the platform counts.
C24_PlatformRowsSumToCombined ==
    (RollReturned /\ AggDone /\ CleanRecords(df_raw)) =>
        \A c \in CategoryIds : PlatformRowsAddUp(catResults, c)

----------------------------------------------------------------------------
\* The sum of a column, read by Read, over the Combined rows of A, B and C.
CombinedSum(rows, Read(_)) ==
    Read(CatRow(rows, "A", "Combined")) + Read(CatRow(rows, "B", "Combined"))
    + Read(CatRow(rows, "C", "Combined"))

RowCount(row) == CellCount(row.Frequency_Count)
RowEngagement(row) == CellNumber(row.Total_Engagement)

\* C25: in the category-level output the Frequency (Count) of the Combined
\* rows of A, B and C sums to the Frequency (Count) of the TOTAL row, and
\* their Total Engagement to the TOTAL row's: no tag row lies outside the
\* three categories.
C25_CombinedRowsSumToTotal ==
    RollReturned =>
        /\ CombinedSum(catResults, RowCount)
               = RowCount(CatRow(catResults, "TOTAL", "Combined"))
        /\ CombinedSum(catResults, RowEngagement)
               = RowEngagement(CatRow(catResults, "TOTAL", "Combined"))
        /\ \A k \in 1..Len(df) : df[k].Category_id \in CategoryIds

\* Two categories have posts with engagement.
C25_Witness ==
    /\ RollReturned
    /\ RowCount(CatRow(catResults, "A", "Combined")) > 0
    /\ RowCount(CatRow(catResults, "C", "Combined")) > 0
    /\ RowEngagement(CatRow(catResults, "A", "Combined")) > 0
    /\ RowEngagement(CatRow(catResults, "C", "Combined")) > 0
    /\ RowCount(CatRow(catResults, "TOTAL", "Combined")) = 3

----------------------------------------------------------------------------
\* The k-th call of extract_tweet_data returned a result that is a success or
\* has a text / ended in a failed result or an exception.
AttemptHasData(k) ==
    /\ ~attempts[k].raised
    /\ \/ attempts[k].result.extraction_status = "success"
       \/ attempts[k].result.text # ""
AttemptFailed(k) ==
    \/ attempts[k].raised
    \/ attempts[k].result.extraction_status = "failed"

\* C26: _extract_with_retry terminates and returns a result after at most
\* max_retries + 1 calls of extract_tweet_data (3 with the max_retries = 2 of
\* process_csv_file), and the first call whose result is a success or has a
\* text is the last call.
C26_ReturnsWithinMaxRetriesPlusOne ==
    /\ [](Len(attempts) <= max_retries + 1)
    /\ [](\A k \in 1..Len(attempts) : AttemptHasData(k) => k = Len(attempts))
    /\ [](retPc = "returned" =>
            /\ retResult # NoResult
            /\ Len(attempts) \in 1..(max_retries + 1))
    /\ <>[](retPc = "returned")

\* Called as by process_csv_file, the third call succeeded after two that
\* failed.
C26_Witness ==
    /\ retPc = "returned"
    /\ max_retries = 2
    /\ Len(attempts) = 3
    /\ retResult.extraction_status = "success"
    /\ AttemptFailed(1)
    /\ AttemptFailed(2)

\* C27: an attempt that fails (a failed result or an exception) and is not
\* the last one the loop allows is followed by another attempt, so a failed
\* result is returned only after max_retries + 1 attempts.
C27_FailedAttemptIsRetried ==
    /\ \A k \in 1..MaxRetries :
           (Len(attempts) = k /\ AttemptFailed(k) /\ k <= max_retries)
               ~> (Len(attempts) > k)
    /\ [](retPc = "returned" /\ retResult.extraction_status = "failed"
            => Len(attempts) = max_retries + 1)

\* Three attempts failed, one by an exception and one by a failed result,
\* and the failure was returned.
C27_Witness ==
    /\ retPc = "returned"
    /\ max_retries = 2
    /\ Len(attempts) = 3
    /\ retResult.extraction_status = "failed"
    /\ attempts[1].raised
    /\ ~attempts[2].raised

----------------------------------------------------------------------------
\* The rows of the output file as last written; none before the first write.
SavedRows == IF whFile.exists THEN whFile.rows ELSE <<>>

\* The Status extract_content gives the page a link leads to.
StatusOfPage(page) ==
    IF page = "text" THEN "Success"
    ELSE IF page = "timeout" THEN "Exception" ELSE "Failed"

\* The rows are the results of the first links, in input order, with the IDs
\* 1, 2, ...
RowsArePrefix(rows) ==
    /\ Len(rows) <= Len(links)
    /\ \A k \in 1..Len(rows) :
           /\ rows[k].ID = k
           /\ rows[k].Link = links[k].url
           /\ rows[k].Status = StatusOfPage(links[k].page)

\* C28: after the i-th link has been processed the output file as last
\* written holds the results of at least the first 10 * floor(i / 10) links,
\* as a prefix in input order with IDs 1, 2, ..., so at most 9 processed
\* results are missing from it; after the final save it has one row per
\* input link and success_count + fail_count is the number of links.
C28_CheckpointEveryTenLinks ==
    whPc \in {"loop", "done"} =>
        /\ RowsArePrefix(SavedRows)
        /\ Len(SavedRows) >= 10 * (whI \div 10)
        /\ whI - Len(SavedRows) <= 9
        /\ success_count + fail_count = whI
        /\ whPc = "done" =>
               /\ whFile.exists
               /\ Len(SavedRows) = Len(links)
               /\ success_count + fail_count = Len(links)

\* Nineteen links processed, some with success and some without, and the
\* file holds the first ten.
C28_Witness ==
    /\ whPc = "loop"
    /\ whI = 19
    /\ Len(SavedRows) = 10
    /\ success_count > 0
    /\ fail_count > 0

----------------------------------------------------------------------------
\* C29: whatever pages the API answers with, every post in the result has a
\* parsed date d with start_date <= d <= end_date (each bound only when
\* given), so none is without a valid date, and no two posts of the result
\* have the same non-empty id, also when a post is on several pages.
C29_ResultInRangeAndWithoutDuplicates ==
    /\ \A k \in 1..Len(all_posts) :
           /\ all_posts[k].date # NoDate
           /\ start_date # NoDate => start_date[1] <= all_posts[k].date[1]
           /\ end_date # NoDate => all_posts[k].date[1] <= end_date[1]
    /\ \A j, k \in 1..Len(all_posts) :
           (j # k /\ all_posts[j].id # 0) =>
               all_posts[j].id # all_posts[k].id

\* Post 1 was on both pages, post 3 is later than end_date, and the result
\* is post 1 and post 2.
C29_Witness ==
    /\ fPc = "done"
    /\ start_date = Date(1)
    /\ end_date = Date(2)
    /\ Len(requested) = 2
    /\ requested[1] = PageA
    /\ requested[2] = PageB
    /\ Len(all_posts) = 2

\* C30: in both fetchers no page is requested after the first page without
\* data, and at most max_pages pages are requested.  Violated by
\* get_trump_tweets, which goes on to the next page.
C30_NoRequestAfterEmptyPage ==
    /\ Len(requested) <= max_pages
    /\ \A k \in 1..(Len(requested) - 1) : requested[k].kind # "empty"

====
